---------------------------- MODULE Spec2Model ----------------------------
(***************************************************************************)
(* Signal engines of the trading bot.                                      *)
(*                                                                         *)
(*   variant = "murphy" : MurphyTechnicalAnalyzer (technical_analyzer.py), *)
(*                        the short-horizon engine: generate_signals on    *)
(*                        the latest two rows of the indicator table.      *)
(*   variant = "equity" : IndonesianStockBot (trading_bot.py), the         *)
(*                        long-horizon engine: generate_enhanced_signals   *)
(*                        on a bar, validate_signal, analyze_stock.        *)
(*                                                                         *)
(* Numbers.  Prices, volumes and indicator values are integers.  A float   *)
(* that is "not a number" is the value NaN; every comparison with NaN is   *)
(* false, as in IEEE-754 and pandas.  Price levels of the short-horizon    *)
(* engine (entry, stop, target) are held in hundredths of a price unit so  *)
(* that close * 0.95 is 95 * close; risk_reward is held in hundredths too  *)
(* (round(x, 2) * 100).  Levels of the long-horizon engine are held in     *)
(* hundredths as well (round(close * 0.85, 2) * 100 = 85 * close).         *)
(***************************************************************************)
EXTENDS Integers, Sequences, FiniteSets

VARIABLES
    variant,      \* which engine this run exercises
    pc,           \* position of the run: "start", "signals", "done"
    df_len,       \* len(df): number of bars of the Bar Series handed in
    latest,       \* murphy: df.iloc[-1], the indicator row of the latest bar
    prev,         \* murphy: df.iloc[-2]
    signals,      \* murphy: the dict returned by generate_signals
    bar_index,    \* equity: index of the bar of the series that is followed
    bar,          \* equity: the inputs of the signal rules at that bar
    labels,       \* equity: Signal / Position / Signal_Reason written to that bar
    signal_info,  \* equity: what analyze_stock returns (None or the dict)
    clock,        \* datetime.now(), counted from the first analysis call
    repeat,       \* the result of a second analysis call on the same snapshot
    series,       \* table: the Bar Series (df), a sequence of OHLCV bars
    table,        \* table: the indicator columns and labels computed on the series
    kept,         \* table: how many leading bars a later edit of the series left alone
    retable,      \* table: the columns and labels computed again after the edit
    patterns,     \* patterns: the dict returned by detect_patterns
    columns,      \* table: the column names of the caller's DataFrame object
    fetch,        \* symbol: what exchange.fetch_ohlcv does, "bars" or "error"
    faults,       \* symbol: the steps of analyze_symbol that raise when they run
    bot,          \* IndonesianStockBot: signals_history, watchlist_data,
                  \* watchlist_alerts and the messages handed to Telegram
    call,         \* the arguments and the result of the latest call or command
    production,   \* ProductionTradingBot: running, error_count, last_successful_run
    user_watchlists  \* InteractiveTradingBot.user_watchlists

tableVars == <<series, table, kept, retable, patterns, columns, fetch, faults>>

botVars == <<bot, call, production, user_watchlists>>

\* what the analysis engines leave alone while a bot object is exercised
engineVars == <<df_len, latest, prev, signals, bar_index, bar, labels,
                signal_info, clock, repeat, tableVars>>

vars == <<variant, pc, df_len, latest, prev, signals, bar_index, bar, labels, signal_info,
          clock, repeat, tableVars, botVars>>

----------------------------------------------------------------------------
(* Floats *)

NaN == -999999

IsNaN(x) == x = NaN

Gt(a, b) == ~IsNaN(a) /\ ~IsNaN(b) /\ a > b
Lt(a, b) == ~IsNaN(a) /\ ~IsNaN(b) /\ a < b
Ge(a, b) == ~IsNaN(a) /\ ~IsNaN(b) /\ a >= b
Le(a, b) == ~IsNaN(a) /\ ~IsNaN(b) /\ a <= b

Max(a, b) == IF b > a THEN b ELSE a
Min(a, b) == IF b < a THEN b ELSE a
Abs(x) == IF x < 0 THEN -x ELSE x

\* round(num / den, 2) * 100 for num >= 0, den > 0: nearest hundredth, ties to even
Round2(num, den) ==
    LET q == (100 * num) \div den
        r == (100 * num) % den
    IN  IF 2 * r < den THEN q
        ELSE IF 2 * r > den THEN q + 1
        ELSE IF q % 2 = 0 THEN q ELSE q + 1

----------------------------------------------------------------------------
(* Program constants *)

\* generate_signals: len(df) < 50; analyze_stock: max(SMA_LONG_PERIOD, RSI_PERIOD)
MIN_BARS == 50
SMA_SHORT_PERIOD == 20
SMA_LONG_PERIOD == 50
RSI_PERIOD == 21
\* windows of calculate_technical_indicators
VOLUME_MA_WINDOW == 20
RECENT_WINDOW == 10
\* windows and shifts of generate_enhanced_signals
MOMENTUM_SHIFT == 5
DIVERGENCE_WINDOW == 10
DIVERGENCE_SHIFT == 10
\* windows of calculate_indicators and calculate_fibonacci_levels
SMA_20_WINDOW == 20
SMA_50_WINDOW == 50
VOLUME_SMA_WINDOW == 20
LEVEL_WINDOW == 20
FIB_BARS == 20
\* windows of detect_patterns
MIN_PATTERN_BARS == 50
PATTERN_BARS == 20
DOUBLE_BARS == 30

\* short-horizon thresholds of generate_signals
RSI_OVERSOLD_SHORT == 30
RSI_OVERBOUGHT_SHORT == 70
BUY_STOP_PCT == 95
BUY_TARGET_PCT == 110
SELL_STOP_PCT == 105
SELL_TARGET_PCT == 90

\* long-horizon configuration (config.py)
MIN_VOLUME_THRESHOLD == 1000000
MIN_PRICE_CHANGE_PCT == 3
STOP_LOSS_PERCENTAGE == 15
TAKE_PROFIT_PERCENTAGE == 25
RSI_OVERBOUGHT_THRESHOLD == 80
RSI_OVERSOLD_THRESHOLD == 20
HIGH_VOLUME_SELL_MULTIPLIER == 3
\* literals of generate_enhanced_signals
RSI_EXTREME == 85
RSI_DIVERGENCE == 70
RSI_UPTREND == 50
SELL_OFF_PCT == -5
CRASH_PCT == -10

----------------------------------------------------------------------------
(* Bounds and input domains *)

\* how far around the long trend window the series lengths are taken
LenSlack == 0

\* how many update_watchlist_data calls reach a watchlist symbol
MaxUpdates == 12

\* how many daily analyses the production loop is followed for
MaxRuns == 7

\* how many times the clock is seen to advance between two analysis calls
MaxClock == 1

None == [none |-> TRUE]

\* series lengths handed to generate_signals: empty, one bar, and the lengths
\* around the long window
SeriesLengths ==
    {0, 1} \cup {k \in 0 .. (MIN_BARS + LenSlack) : k >= MIN_BARS - 1 - LenSlack}

(* Indicator rows of the short-horizon engine.  The columns are computed by  *)
(* the ta library (calculate_indicators) with windows of at most 50 bars, so *)
(* on a series of 50 bars or more every column read at the latest and at the *)
(* previous row is defined.  The columns are tied as the library ties them:  *)
(* the Bollinger middle band is the 20-bar average, the bands lie at equal   *)
(* distance from it, and the MACD line ema_12 - ema_26 is the sum of the     *)
(* columns macd (macd_diff) and macd_signal.  The bars are well formed       *)
(* (low <= close <= high), so support <= close <= resistance.                *)
CloseVals      == {100, 104}
EmaFastVals    == {99, 100, 101}
EmaSlowVals    == {100}
SmaShortVals   == {98, 102, 106}
SmaLongVals    == {96, 108}
MacdVals       == {-1, 0, 1}
RsiVals        == {25, 30, 50, 70, 75}
BandDistVals   == {3, 12}
VolumeVals     == {4}
SupportVals    == {85, 96, 100}
ResistanceVals == {104, 108, 120}

\* df['bb_width'] = (bb_upper - bb_lower) / bb_middle * 100, in hundredths
bb_width(upper, middle, lower) == (10000 * (upper - lower)) \div middle

LatestRows ==
    { [close |-> c, ema_12 |-> e12, ema_26 |-> e26, sma_20 |-> s20, sma_50 |-> s50,
       macd |-> m, macd_signal |-> (e12 - e26) - m, rsi |-> r,
       bb_upper |-> s20 + d, bb_lower |-> s20 - d,
       bb_width |-> bb_width(s20 + d, s20, s20 - d),
       volume |-> v, volume_sma |-> 2,
       support |-> sup, resistance |-> res] :
      c \in CloseVals, e12 \in EmaFastVals, e26 \in EmaSlowVals,
      s20 \in SmaShortVals, s50 \in SmaLongVals, m \in MacdVals, r \in RsiVals,
      d \in BandDistVals, v \in VolumeVals,
      sup \in SupportVals, res \in ResistanceVals }

PrevRows ==
    { [ema_12 |-> e12, ema_26 |-> e26, macd |-> m, macd_signal |-> (e12 - e26) - m] :
      e12 \in EmaFastVals, e26 \in EmaSlowVals, m \in MacdVals }

\* latest rows of a series with a bar without data: a bar without prices 31 to
\* 49 bars back leaves the 50-bar average undefined at the latest bar, a bar
\* without volume among the last 20 leaves the volume average undefined
GapRows ==
    { [r EXCEPT !.sma_50 = s50, !.volume_sma = vs] :
        r \in { q \in LatestRows : /\ q.sma_50 = 108
                                   /\ q.support = 96 /\ q.resistance = 108
                                   /\ q.bb_upper = q.sma_20 + 12 },
        s50 \in {NaN, 108}, vs \in {NaN, 2} }
    \ LatestRows

\* the rows of a series shorter than the long window: sma_50 is not defined yet
ShortLatest ==
    [close |-> 100, ema_12 |-> 101, ema_26 |-> 100, sma_20 |-> 98, sma_50 |-> NaN,
     macd |-> 1, macd_signal |-> 0, rsi |-> 50,
     bb_upper |-> 110, bb_lower |-> 86, bb_width |-> bb_width(110, 98, 86),
     volume |-> 4, volume_sma |-> 2, support |-> 96, resistance |-> 104]

ShortPrev == [ema_12 |-> 99, ema_26 |-> 100, macd |-> 0, macd_signal |-> -1]

----------------------------------------------------------------------------
(* MurphyTechnicalAnalyzer.generate_signals *)

\* Moving Average Crossover
MaCrossSignals(l, p) ==
    IF Gt(l.ema_12, l.ema_26) /\ Le(p.ema_12, p.ema_26)
        THEN <<"BULLISH_MA_CROSS">>
    ELSE IF Lt(l.ema_12, l.ema_26) /\ Ge(p.ema_12, p.ema_26)
        THEN <<"BEARISH_MA_CROSS">>
    ELSE <<>>

\* Price vs SMA, compared as plain numbers, an undefined average counting as
\* the lowest value
PriceVsSmaSignals_Raw(l) ==
    IF l.close > l.sma_20 /\ l.sma_20 > l.sma_50
        THEN <<"BULLISH_TREND">>
    ELSE IF Lt(l.close, l.sma_20) /\ Lt(l.sma_20, l.sma_50)
        THEN <<"BEARISH_TREND">>
    ELSE <<>>

\* Price vs SMA
PriceVsSmaSignals(l) ==
    IF Gt(l.close, l.sma_20) /\ Gt(l.sma_20, l.sma_50)
        THEN <<"BULLISH_TREND">>
    ELSE IF Lt(l.close, l.sma_20) /\ Lt(l.sma_20, l.sma_50)
        THEN <<"BEARISH_TREND">>
    ELSE <<>>

TrendSignals(l, p) == MaCrossSignals(l, p) \o PriceVsSmaSignals(l)

MacdSignals(l, p) ==
    IF Gt(l.macd, l.macd_signal) /\ Le(p.macd, p.macd_signal)
        THEN <<"BULLISH_MACD">>
    ELSE IF Lt(l.macd, l.macd_signal) /\ Ge(p.macd, p.macd_signal)
        THEN <<"BEARISH_MACD">>
    ELSE <<>>

RsiSignals(l) ==
    IF Lt(l.rsi, RSI_OVERSOLD_SHORT) THEN <<"OVERSOLD">>
    ELSE IF Gt(l.rsi, RSI_OVERBOUGHT_SHORT) THEN <<"OVERBOUGHT">>
    ELSE IF Le(40, l.rsi) /\ Le(l.rsi, 60) THEN <<"NEUTRAL">>
    ELSE <<>>

\* Bollinger Bands Analysis; bb_width < 10 is bb_width < 1000 in hundredths
BbSignals(l) ==
    IF Gt(l.close, l.bb_upper) THEN <<"BB_BREAKOUT_UP">>
    ELSE IF Lt(l.close, l.bb_lower) THEN <<"BB_BREAKOUT_DOWN">>
    ELSE IF Lt(l.bb_width, 1000) THEN <<"BB_SQUEEZE">>
    ELSE <<>>

\* volume > volume_sma * 1.5, volume < volume_sma * 0.5
VolumeSignals(l) ==
    IF ~IsNaN(l.volume_sma) /\ 2 * l.volume > 3 * l.volume_sma THEN <<"HIGH_VOLUME">>
    ELSE IF ~IsNaN(l.volume_sma) /\ 2 * l.volume < l.volume_sma THEN <<"LOW_VOLUME">>
    ELSE <<>>

\* abs(price - level) / price < 0.02
SrSignals(l) ==
    IF 50 * Abs(l.close - l.support) < l.close THEN <<"AT_SUPPORT">>
    ELSE IF 50 * Abs(l.close - l.resistance) < l.close THEN <<"AT_RESISTANCE">>
    ELSE <<>>

\* a bullish test that also counts a breakout above the upper band
IsBullishTag_Breakout(s) ==
    s \in {"BULLISH_MA_CROSS", "BULLISH_TREND", "BULLISH_MACD", "OVERSOLD",
           "BB_BREAKOUT_UP"}

\* 'BULLISH' in s or 'OVERSOLD' in s, over the tags the rules can append
IsBullishTag(s) ==
    s \in {"BULLISH_MA_CROSS", "BULLISH_TREND", "BULLISH_MACD", "OVERSOLD"}

\* 'BEARISH' in s or 'OVERBOUGHT' in s
IsBearishTag(s) ==
    s \in {"BEARISH_MA_CROSS", "BEARISH_TREND", "BEARISH_MACD", "OVERBOUGHT"}

CountedSignals(l, p) ==
    TrendSignals(l, p) \o MacdSignals(l, p) \o RsiSignals(l) \o BbSignals(l)

BullishCount(l, p) == Len(SelectSeq(CountedSignals(l, p), IsBullishTag))
BearishCount(l, p) == Len(SelectSeq(CountedSignals(l, p), IsBearishTag))

\* a direction rule that lets one bullish tag decide and breaks ties towards BUY
Direction_Eager(b, s) ==
    IF b >= s /\ b >= 1 THEN "BUY"
    ELSE IF s > b /\ s >= 2 THEN "SELL"
    ELSE "HOLD"

\* Determine signal strength and direction
Direction(b, s) ==
    IF b > s /\ b >= 2 THEN "BUY"
    ELSE IF s > b /\ s >= 2 THEN "SELL"
    ELSE "HOLD"

Confidence(b, s) ==
    IF b > s /\ b >= 2 THEN Min(b * 20, 100)
    ELSE IF s > b /\ s >= 2 THEN Min(s * 20, 100)
    ELSE 50

Strength(confidence) ==
    IF confidence >= 80 THEN "STRONG"
    ELSE IF confidence >= 60 THEN "MEDIUM"
    ELSE "WEAK"

\* an entry price that is set for every direction, HOLD included
EntryPrice_Always(sig, l) == 100 * l.close

\* Calculate entry, stop loss, and take profit (hundredths)
EntryPrice(sig, l) == IF sig \in {"BUY", "SELL"} THEN 100 * l.close ELSE 0

\* a stop that takes the farther of the two levels instead of the nearer
StopLoss_Farther(sig, l) ==
    IF sig = "BUY" THEN Min(100 * l.support, BUY_STOP_PCT * l.close)
    ELSE IF sig = "SELL" THEN Max(100 * l.resistance, SELL_STOP_PCT * l.close)
    ELSE 0

StopLoss(sig, l) ==
    IF sig = "BUY" THEN Max(100 * l.support, BUY_STOP_PCT * l.close)
    ELSE IF sig = "SELL" THEN Min(100 * l.resistance, SELL_STOP_PCT * l.close)
    ELSE 0

\* a target computed with the percentage of the opposite direction
TakeProfit_Swapped(sig, l) ==
    IF sig = "BUY" THEN Min(100 * l.resistance, SELL_TARGET_PCT * l.close)
    ELSE IF sig = "SELL" THEN Max(100 * l.support, BUY_TARGET_PCT * l.close)
    ELSE 0

TakeProfit(sig, l) ==
    IF sig = "BUY" THEN Min(100 * l.resistance, BUY_TARGET_PCT * l.close)
    ELSE IF sig = "SELL" THEN Max(100 * l.support, SELL_TARGET_PCT * l.close)
    ELSE 0

\* a ratio computed from signed distances, without abs()
RiskReward_Signed(entry, stop, target) ==
    IF stop # 0
        THEN LET risk   == entry - stop
                 reward == target - entry
             IN  IF risk > 0 /\ reward >= 0 THEN Round2(reward, risk) ELSE 0
        ELSE 0

\* Calculate risk/reward ratio (hundredths)
RiskReward(entry, stop, target) ==
    IF stop # 0
        THEN LET risk   == Abs(entry - stop)
                 reward == Abs(target - entry)
             IN  IF risk > 0 THEN Round2(reward, risk) ELSE 0
        ELSE 0

\* 'timestamp': latest.name, the timestamp of the latest bar of the series
BarTimestamp(len) == <<"bar", len - 1>>

\* an empty signal stamped with a fixed time instead of the time of the call
empty_signal_FixedTime(now) ==
    [timestamp |-> <<"now", 0>>,
     price |-> 0, signal |-> "NO_DATA", strength |-> "NONE", confidence |-> 0,
     entry_price |-> 0, stop_loss |-> 0, take_profit |-> 0, risk_reward |-> 0,
     analysis |-> <<>>]

\* 'timestamp': datetime.now()
empty_signal(now) ==
    [timestamp |-> <<"now", now>>,
     price |-> 0, signal |-> "NO_DATA", strength |-> "NONE", confidence |-> 0,
     entry_price |-> 0, stop_loss |-> 0, take_profit |-> 0, risk_reward |-> 0,
     analysis |-> <<>>]

\* a length check that lets a 49-bar series through
TooShort_OffByOne(len) == len = 0 \/ len < MIN_BARS - 1

\* df.empty or len(df) < 50
TooShort(len) == len = 0 \/ len < MIN_BARS

generate_signals(len, l, p, now) ==
    IF TooShort(len) THEN empty_signal(now)
    ELSE
        LET b     == BullishCount(l, p)
            s     == BearishCount(l, p)
            sig   == Direction(b, s)
            conf  == Confidence(b, s)
            entry == EntryPrice(sig, l)
            stop  == StopLoss(sig, l)
            tp    == TakeProfit(sig, l)
        IN  [timestamp |-> BarTimestamp(len),
             price |-> l.close, signal |-> sig, strength |-> Strength(conf),
             confidence |-> conf,
             entry_price |-> entry, stop_loss |-> stop, take_profit |-> tp,
             risk_reward |-> RiskReward(entry, stop, tp),
             analysis |-> [trend |-> TrendSignals(l, p),
                           momentum |-> MacdSignals(l, p) \o RsiSignals(l),
                           volatility |-> BbSignals(l),
                           volume |-> VolumeSignals(l),
                           support_resistance |-> SrSignals(l)]]


----------------------------------------------------------------------------
(* IndonesianStockBot: the bar evaluated by the long-horizon rules *)

(* The inputs the rules of generate_enhanced_signals read at bar i of the    *)
(* series: the columns of calculate_technical_indicators at that bar and the *)
(* shifted values (_1, _2, _5, _10: that many bars earlier).  A rolling      *)
(* column of window w, shifted by k bars, is NaN at bar i unless             *)
(* i - k >= w - 1.  RSI is the ratio of two rolling means and is NaN as well *)
(* when both are 0, which is the case of a series that has not moved.        *)

\* series lengths handed to analyze_stock: empty, one bar, one short of the
\* window, and the lengths at which the latest bar has 0, 1, 2, ... earlier
\* values of the long average
EquityLengths ==
    {0, 1, SMA_LONG_PERIOD - 1} \cup (SMA_LONG_PERIOD .. (SMA_LONG_PERIOD + 2 + LenSlack))

\* the bars followed: the first, those at which a window fills, the latest
BarIndexes(len) ==
    { i \in {0, SMA_SHORT_PERIOD - 1, RSI_PERIOD - 1, SMA_LONG_PERIOD - 1,
             SMA_LONG_PERIOD, SMA_LONG_PERIOD + 1, len - 1} : 0 <= i /\ i < len }

WindowFull(i, w, k) == i - k >= w - 1

\* the values of a column at a bar: NaN unless defined there
Column(defined, values) == IF defined THEN values ELSE {NaN}

BarCloseVals    == {90, 130}
BarClose1Vals   == {100, 150}
BarClose5Vals   == {100, 140}
BarSmaShortVals == {109, 111}
BarSmaLongVals  == {110}
PrevSmaVals     == {109, 110, 111}
Prev2SmaVals    == {109, 111}
BarRsiVals      == {25, 60, 75, 80, 82, 90}
BarRsi1Vals     == {20, 30}
BarRsi10Vals    == {60, 78}
CloseMa10Vals   == {100}
CloseMa10AgoVals == {90, 110}
BarVolumeVals   == {500000, 3000000, 4000000}
VolumeMaVals    == {1000000}
RecentHighVals  == {150}
RecentLowVals   == {80}

\* bars of a series that moves
MovingBars(i) ==
    { [Close |-> c, Close_1 |-> c1, Close_5 |-> c5,
       sma_short |-> ss, sma_long |-> sl,
       sma_short_1 |-> ss1, sma_long_1 |-> sl1,
       sma_short_2 |-> ss2, sma_long_2 |-> sl2,
       rsi |-> r, rsi_1 |-> r1, rsi_10 |-> r10,
       close_ma10 |-> m, close_ma10_10 |-> m10,
       Volume |-> v, Volume_MA |-> vm,
       Recent_High |-> rh, Recent_Low |-> rl] :
      c   \in BarCloseVals,
      c1  \in Column(i >= 1, BarClose1Vals),
      c5  \in Column(i >= MOMENTUM_SHIFT, BarClose5Vals),
      ss  \in Column(WindowFull(i, SMA_SHORT_PERIOD, 0), BarSmaShortVals),
      sl  \in Column(WindowFull(i, SMA_LONG_PERIOD, 0), BarSmaLongVals),
      ss1 \in Column(WindowFull(i, SMA_SHORT_PERIOD, 1),
                     IF WindowFull(i, SMA_LONG_PERIOD, 1) THEN PrevSmaVals ELSE {109}),
      sl1 \in Column(WindowFull(i, SMA_LONG_PERIOD, 1), BarSmaLongVals),
      ss2 \in Column(WindowFull(i, SMA_SHORT_PERIOD, 2),
                     IF WindowFull(i, SMA_LONG_PERIOD, 2) THEN Prev2SmaVals ELSE {109}),
      sl2 \in Column(WindowFull(i, SMA_LONG_PERIOD, 2), BarSmaLongVals),
      r   \in Column(WindowFull(i, RSI_PERIOD, 0), BarRsiVals),
      r1  \in Column(WindowFull(i, RSI_PERIOD, 1), BarRsi1Vals),
      r10 \in Column(WindowFull(i, RSI_PERIOD, DIVERGENCE_SHIFT), BarRsi10Vals),
      m   \in Column(WindowFull(i, DIVERGENCE_WINDOW, 0), CloseMa10Vals),
      m10 \in Column(WindowFull(i, DIVERGENCE_WINDOW, DIVERGENCE_SHIFT), CloseMa10AgoVals),
      v   \in BarVolumeVals,
      vm  \in Column(WindowFull(i, VOLUME_MA_WINDOW, 0), VolumeMaVals),
      rh  \in Column(WindowFull(i, RECENT_WINDOW, 0), RecentHighVals),
      rl  \in Column(WindowFull(i, RECENT_WINDOW, 0), RecentLowVals) }

\* bars of a series whose price has not moved: every close and average is the
\* same price, average gain and loss are 0 and RSI is 0 / 0
FlatBars(i) ==
    { [Close |-> 100,
       Close_1 |-> IF i >= 1 THEN 100 ELSE NaN,
       Close_5 |-> IF i >= MOMENTUM_SHIFT THEN 100 ELSE NaN,
       sma_short |-> IF WindowFull(i, SMA_SHORT_PERIOD, 0) THEN 100 ELSE NaN,
       sma_long |-> IF WindowFull(i, SMA_LONG_PERIOD, 0) THEN 100 ELSE NaN,
       sma_short_1 |-> IF WindowFull(i, SMA_SHORT_PERIOD, 1) THEN 100 ELSE NaN,
       sma_long_1 |-> IF WindowFull(i, SMA_LONG_PERIOD, 1) THEN 100 ELSE NaN,
       sma_short_2 |-> IF WindowFull(i, SMA_SHORT_PERIOD, 2) THEN 100 ELSE NaN,
       sma_long_2 |-> IF WindowFull(i, SMA_LONG_PERIOD, 2) THEN 100 ELSE NaN,
       rsi |-> NaN, rsi_1 |-> NaN, rsi_10 |-> NaN,
       close_ma10 |-> IF WindowFull(i, DIVERGENCE_WINDOW, 0) THEN 100 ELSE NaN,
       close_ma10_10 |->
           IF WindowFull(i, DIVERGENCE_WINDOW, DIVERGENCE_SHIFT) THEN 100 ELSE NaN,
       Volume |-> v,
       Volume_MA |-> vm,
       Recent_High |-> IF WindowFull(i, RECENT_WINDOW, 0) THEN 100 ELSE NaN,
       Recent_Low |-> IF WindowFull(i, RECENT_WINDOW, 0) THEN 100 ELSE NaN] :
      v \in BarVolumeVals,
      vm \in Column(WindowFull(i, VOLUME_MA_WINDOW, 0), VolumeMaVals) }

\* closes of a quiet series: changes of 2.992 %, 2.996 %, 3 % and -2.996 % on
\* a previous close of 25000
QuietCloseVals == {25748, 25749, 25750, 24251}

\* bars of a series in a mild uptrend around 25000, far enough into the series
\* for every column to be defined
QuietBars(i) ==
    IF ~WindowFull(i, SMA_LONG_PERIOD, 2) THEN {}
    ELSE { [Close |-> c, Close_1 |-> 25000, Close_5 |-> 24900,
            sma_short |-> 24800, sma_long |-> 24500,
            sma_short_1 |-> 24780, sma_long_1 |-> 24490,
            sma_short_2 |-> 24760, sma_long_2 |-> 24480,
            rsi |-> 60, rsi_1 |-> 58, rsi_10 |-> 55,
            close_ma10 |-> 24950, close_ma10_10 |-> 24700,
            Volume |-> v, Volume_MA |-> 1000000,
            Recent_High |-> 25800, Recent_Low |-> 24200] :
           c \in QuietCloseVals, v \in BarVolumeVals }

Bars(i) == MovingBars(i) \cup FlatBars(i) \cup QuietBars(i)

\* the latest bar of a series shorter than the long window: SMA_50 is not defined yet
ShortBar ==
    [Close |-> 130, Close_1 |-> 100, Close_5 |-> 100,
     sma_short |-> 111, sma_long |-> NaN,
     sma_short_1 |-> 109, sma_long_1 |-> NaN,
     sma_short_2 |-> 109, sma_long_2 |-> NaN,
     rsi |-> 60, rsi_1 |-> 20, rsi_10 |-> 78,
     close_ma10 |-> 100, close_ma10_10 |-> 90,
     Volume |-> 4000000, Volume_MA |-> 1000000,
     Recent_High |-> 150, Recent_Low |-> 80]

----------------------------------------------------------------------------
(* IndonesianStockBot.generate_enhanced_signals, one bar of the series *)

\* volume_ratio > k, volume_ratio = Volume / Volume_MA (inf when Volume_MA = 0)
VolumeRatioGt(x, k) ==
    /\ ~IsNaN(x.Volume_MA)
    /\ IF x.Volume_MA = 0 THEN x.Volume > 0 ELSE x.Volume > k * x.Volume_MA

\* Price_Change_Pct < k, Price_Change_Pct = Close.pct_change() * 100
PriceChangePctLt(x, k) ==
    /\ ~IsNaN(x.Close_1)
    /\ x.Close_1 > 0
    /\ 100 * (x.Close - x.Close_1) < k * x.Close_1

buy_sma_cross(x) ==
    Gt(x.sma_short, x.sma_long) /\ Le(x.sma_short_1, x.sma_long_1)

buy_rsi_ok(x) == Lt(x.rsi, RSI_OVERBOUGHT_THRESHOLD)

rsi_oversold_recovery(x) ==
    Gt(x.rsi, RSI_OVERSOLD_THRESHOLD) /\ Le(x.rsi_1, RSI_OVERSOLD_THRESHOLD)

strong_uptrend(x) ==
    /\ Gt(x.sma_short, x.sma_long)
    /\ Gt(x.Close, x.sma_short)
    /\ Gt(x.rsi, RSI_UPTREND)
    /\ Lt(x.rsi, RSI_OVERBOUGHT_THRESHOLD)

price_momentum(x) == Gt(x.Close, x.Close_5)

buy_condition(x) ==
    \/ buy_sma_cross(x) /\ buy_rsi_ok(x)
    \/ rsi_oversold_recovery(x) /\ Gt(x.sma_short, x.sma_long)
    \/ strong_uptrend(x) /\ price_momentum(x)

sell_sma_cross(x) ==
    Lt(x.sma_short, x.sma_long) /\ Ge(x.sma_short_1, x.sma_long_1)

sma_cross_confirmed(x) ==
    sell_sma_cross(x) /\ Ge(x.sma_short_2, x.sma_long_2)

sell_rsi_overbought(x) == Gt(x.rsi, RSI_OVERBOUGHT_THRESHOLD)

\* a sell-off rule stricter than the crash rule (drop beyond 15%)
sell_high_volume_Stricter(x) ==
    VolumeRatioGt(x, HIGH_VOLUME_SELL_MULTIPLIER) /\ PriceChangePctLt(x, -15)

sell_high_volume(x) ==
    VolumeRatioGt(x, HIGH_VOLUME_SELL_MULTIPLIER) /\ PriceChangePctLt(x, SELL_OFF_PCT)

price_trend(x) == Gt(x.close_ma10, x.close_ma10_10)

rsi_trend(x) == Lt(x.rsi, x.rsi_10)

\* a divergence rule without the RSI floor of 70
sell_divergence_NoRsiFloor(x) == price_trend(x) /\ rsi_trend(x)

sell_divergence(x) ==
    price_trend(x) /\ rsi_trend(x) /\ Gt(x.rsi, RSI_DIVERGENCE)

strong_sell_multiple(x) == sma_cross_confirmed(x) /\ sell_rsi_overbought(x)

strong_sell_extreme(x) ==
    Gt(x.rsi, RSI_EXTREME) /\ VolumeRatioGt(x, HIGH_VOLUME_SELL_MULTIPLIER)

strong_sell_crash(x) ==
    PriceChangePctLt(x, CRASH_PCT) /\ VolumeRatioGt(x, HIGH_VOLUME_SELL_MULTIPLIER)

strong_sell(x) ==
    strong_sell_multiple(x) \/ strong_sell_extreme(x) \/ strong_sell_crash(x)

regular_sell(x) ==
    /\ \/ sma_cross_confirmed(x)
       \/ sell_rsi_overbought(x)
       \/ sell_high_volume(x)
       \/ sell_divergence(x)
    /\ ~(strong_sell_multiple(x) \/ strong_sell_extreme(x) \/ strong_sell_crash(x))

\* data.loc[mask, column] = value: the later assignment wins
Assign(mask, value, old) == IF mask THEN value ELSE old

\* the buy assignment made after the sell assignments
SignalColumn_BuyLast(x) ==
    Assign(buy_condition(x), "BUY",
    Assign(strong_sell(x), "STRONG_SELL",
    Assign(regular_sell(x), "SELL", "HOLD")))

SignalColumn(x) ==
    Assign(strong_sell(x), "STRONG_SELL",
    Assign(regular_sell(x), "SELL",
    Assign(buy_condition(x), "BUY", "HOLD")))

PositionColumn(x) ==
    Assign(strong_sell(x), -2,
    Assign(regular_sell(x), -1,
    Assign(buy_condition(x), 1, 0)))

\* the crash reason assigned before the other strong-sell reasons
SignalReasonColumn_CrashFirst(x) ==
    Assign(strong_sell_extreme(x), "Extreme Overbought (85+)",
    Assign(strong_sell_multiple(x), "Multiple Confirmed Bearish Signals",
    Assign(strong_sell_crash(x), "Major Price Crash (-10%+)",
    Assign(sell_divergence(x), "Long-term Bearish Divergence",
    Assign(sell_high_volume(x), "Major High Volume Sell-off",
    Assign(sell_rsi_overbought(x), "RSI Extremely Overbought (80+)",
    Assign(sma_cross_confirmed(x), "Confirmed SMA Bearish Crossover",
    Assign(strong_uptrend(x) /\ price_momentum(x), "Strong Uptrend Continuation",
    Assign(rsi_oversold_recovery(x) /\ Gt(x.sma_short, x.sma_long), "RSI Oversold Recovery",
    Assign(buy_sma_cross(x) /\ buy_rsi_ok(x), "Long-term SMA Crossover",
           "No Signal"))))))))))

SignalReasonColumn(x) ==
    Assign(strong_sell_crash(x), "Major Price Crash (-10%+)",
    Assign(strong_sell_extreme(x), "Extreme Overbought (85+)",
    Assign(strong_sell_multiple(x), "Multiple Confirmed Bearish Signals",
    Assign(sell_divergence(x), "Long-term Bearish Divergence",
    Assign(sell_high_volume(x), "Major High Volume Sell-off",
    Assign(sell_rsi_overbought(x), "RSI Extremely Overbought (80+)",
    Assign(sma_cross_confirmed(x), "Confirmed SMA Bearish Crossover",
    Assign(strong_uptrend(x) /\ price_momentum(x), "Strong Uptrend Continuation",
    Assign(rsi_oversold_recovery(x) /\ Gt(x.sma_short, x.sma_long), "RSI Oversold Recovery",
    Assign(buy_sma_cross(x) /\ buy_rsi_ok(x), "Long-term SMA Crossover",
           "No Signal"))))))))))

generate_enhanced_signals(x) ==
    [Signal |-> SignalColumn(x),
     Position |-> PositionColumn(x),
     Signal_Reason |-> SignalReasonColumn(x)]

NoLabels == [Signal |-> "unset", Position |-> 0, Signal_Reason |-> "unset"]

----------------------------------------------------------------------------
(* IndonesianStockBot.validate_signal *)

\* round(num / den, 2) * 100 for den > 0 and any sign of num
RoundSigned2(num, den) ==
    IF num < 0 THEN -Round2(-num, den) ELSE Round2(num, den)

\* round(x, 2) * 100 of a column value
Rounded(x) == IF IsNaN(x) THEN NaN ELSE 100 * x

\* previous_data = data.iloc[-2] if len(data) > 1 else latest_data
PreviousClose(len, x) == IF len > 1 THEN x.Close_1 ELSE x.Close

\* round(((Close - previous Close) / previous Close) * 100, 2), hundredths of a percent
PriceChange(len, x) ==
    LET p == PreviousClose(len, x)
    IN  IF IsNaN(p) \/ p <= 0 THEN NaN
        ELSE RoundSigned2(100 * (x.Close - p), p)

\* a stop placed above the price, as for a short position
stop_loss_price_Above(x) == (100 + STOP_LOSS_PERCENTAGE) * x.Close

stop_loss_price(x) == (100 - STOP_LOSS_PERCENTAGE) * x.Close

take_profit_price(x) == (100 + TAKE_PROFIT_PERCENTAGE) * x.Close

volume_valid(x) == x.Volume >= MIN_VOLUME_THRESHOLD

price_change_significant(len, x) ==
    ~IsNaN(PriceChange(len, x))
    /\ Abs(PriceChange(len, x)) >= MIN_PRICE_CHANGE_PCT * 100

\* a check that asks for a defined RSI as well
sma_valid_WithRsi(x) ==
    ~(IsNaN(x.sma_short) \/ IsNaN(x.sma_long) \/ IsNaN(x.rsi))

sma_valid(x) == ~(IsNaN(x.sma_short) \/ IsNaN(x.sma_long))

SignalValid(x) == volume_valid(x) /\ sma_valid(x)

\* a decision list that asks for validity before it looks at the direction
SignalStrength_ValidFirst(sig, valid, significant) ==
    IF valid /\ significant THEN "STRONG"
    ELSE IF valid THEN "MODERATE"
    ELSE IF sig = "STRONG_SELL" THEN "VERY_STRONG"
    ELSE "WEAK"

\* Determine signal strength
SignalStrength(sig, valid, significant) ==
    IF sig = "STRONG_SELL" THEN "VERY_STRONG"
    ELSE IF valid /\ significant THEN "STRONG"
    ELSE IF valid THEN "MODERATE"
    ELSE "WEAK"

validate_signal(len, x, lab) ==
    [date              |-> BarTimestamp(len),
     signal            |-> lab.Signal,
     signal_reason     |-> lab.Signal_Reason,
     current_price     |-> Rounded(x.Close),
     previous_close    |-> Rounded(PreviousClose(len, x)),
     price_change      |-> PriceChange(len, x),
     volume            |-> x.Volume,
     volume_ratio      |-> IF ~IsNaN(x.Volume_MA) /\ x.Volume_MA > 0
                              THEN Round2(x.Volume, x.Volume_MA) ELSE 100,
     sma_short         |-> Rounded(x.sma_short),
     sma_long          |-> Rounded(x.sma_long),
     rsi               |-> IF ~IsNaN(x.rsi) THEN Rounded(x.rsi) ELSE 5000,
     stop_loss_price   |-> stop_loss_price(x),
     take_profit_price |-> take_profit_price(x),
     recent_high       |-> Rounded(x.Recent_High),
     recent_low        |-> Rounded(x.Recent_Low),
     valid             |-> SignalValid(x),
     strength          |-> SignalStrength(lab.Signal, SignalValid(x),
                                          price_change_significant(len, x))]

\* analyze_stock: len(data) < max(SMA_LONG_PERIOD, RSI_PERIOD)
InsufficientData(len) == len < Max(SMA_LONG_PERIOD, RSI_PERIOD)

----------------------------------------------------------------------------
(* Indicator table of a Bar Series: the columns the two engines compute with
   pandas windows over the whole series, row i being the i-th bar (from 1) *)

RECURSIVE SumRange(_, _, _)
SumRange(xs, a, b) == IF a > b THEN 0 ELSE xs[a] + SumRange(xs, a + 1, b)

RECURSIVE MaxRange(_, _, _)
MaxRange(xs, a, b) ==
    IF a = b THEN xs[a]
    ELSE LET m == MaxRange(xs, a + 1, b) IN IF xs[a] > m THEN xs[a] ELSE m

RECURSIVE MinRange(_, _, _)
MinRange(xs, a, b) ==
    IF a = b THEN xs[a]
    ELSE LET m == MinRange(xs, a + 1, b) IN IF xs[a] < m THEN xs[a] ELSE m

Highs(df)   == [i \in 1..Len(df) |-> df[i].high]
Lows(df)    == [i \in 1..Len(df) |-> df[i].low]
Closes(df)  == [i \in 1..Len(df) |-> df[i].close]
Volumes(df) == [i \in 1..Len(df) |-> df[i].volume]

\* Series.rolling(window=w).mean() at row i, in hundredths: NaN until the
\* window is full
RollingMean(xs, i, w) ==
    IF i < w THEN NaN ELSE (100 * SumRange(xs, i - w + 1, i)) \div w

\* Series.rolling(window=w).max() at row i, read to the end of the series
\* instead of to row i
RollingMax_ToEnd(xs, i, w) == IF i < w THEN NaN ELSE MaxRange(xs, i - w + 1, Len(xs))

\* Series.rolling(window=w).max() at row i
RollingMax(xs, i, w) == IF i < w THEN NaN ELSE MaxRange(xs, i - w + 1, i)

\* Series.rolling(window=w).min() at row i
RollingMin(xs, i, w) == IF i < w THEN NaN ELSE MinRange(xs, i - w + 1, i)

\* Series.shift(k) at row i, in hundredths
Shifted(xs, i, k) == IF i - k < 1 THEN NaN ELSE 100 * xs[i - k]

\* delta.where(delta > 0, 0) and -delta.where(delta < 0, 0) at row j: the
\* first row has no delta and counts 0
Gain(closes, j) ==
    IF j >= 2 /\ closes[j] > closes[j - 1] THEN closes[j] - closes[j - 1] ELSE 0

Loss(closes, j) ==
    IF j >= 2 /\ closes[j] < closes[j - 1] THEN closes[j - 1] - closes[j] ELSE 0

\* the rolling sums of gain and of loss at row i; the rolling means are these
\* sums over the same period
GainSum(closes, i, period) ==
    IF i < period THEN NaN
    ELSE SumRange([j \in 1..Len(closes) |-> Gain(closes, j)], i - period + 1, i)

LossSum(closes, i, period) ==
    IF i < period THEN NaN
    ELSE SumRange([j \in 1..Len(closes) |-> Loss(closes, j)], i - period + 1, i)

\* an oscillator that guards the division: no loss counts as rs = 0 when there
\* is no gain either
rsi_of_ZeroFill(gain, loss) ==
    IF IsNaN(gain) \/ IsNaN(loss) THEN NaN
    ELSE IF loss = 0 THEN (IF gain = 0 THEN 0 ELSE 100)
    ELSE 100 - (100 * loss) \div (gain + loss)

\* rs = gain / loss ; rsi = 100 - (100 / (1 + rs)): 0 / 0 is NaN, gain / 0 is
\* inf and 100 / (1 + inf) is 0
rsi_of(gain, loss) ==
    IF IsNaN(gain) \/ IsNaN(loss) THEN NaN
    ELSE IF loss = 0 THEN (IF gain = 0 THEN NaN ELSE 100)
    ELSE 100 - (100 * loss) \div (gain + loss)

calculate_rsi(closes, i) ==
    rsi_of(GainSum(closes, i, RSI_PERIOD), LossSum(closes, i, RSI_PERIOD))

Hundredths(v) == IF IsNaN(v) THEN NaN ELSE 100 * v

\* the inputs of the signal rules at row i, prices and volumes in hundredths
RuleInputs(df, i) ==
    LET c == Closes(df) IN
    [Close |-> 100 * c[i],
     Close_1 |-> Shifted(c, i, 1),
     Close_5 |-> Shifted(c, i, MOMENTUM_SHIFT),
     sma_short |-> RollingMean(c, i, SMA_SHORT_PERIOD),
     sma_long |-> RollingMean(c, i, SMA_LONG_PERIOD),
     sma_short_1 |-> RollingMean(c, i - 1, SMA_SHORT_PERIOD),
     sma_long_1 |-> RollingMean(c, i - 1, SMA_LONG_PERIOD),
     sma_short_2 |-> RollingMean(c, i - 2, SMA_SHORT_PERIOD),
     sma_long_2 |-> RollingMean(c, i - 2, SMA_LONG_PERIOD),
     rsi |-> calculate_rsi(c, i),
     rsi_1 |-> calculate_rsi(c, i - 1),
     rsi_10 |-> calculate_rsi(c, i - DIVERGENCE_SHIFT),
     close_ma10 |-> RollingMean(c, i, DIVERGENCE_WINDOW),
     close_ma10_10 |-> RollingMean(c, i - DIVERGENCE_SHIFT, DIVERGENCE_WINDOW),
     Volume |-> 100 * df[i].volume,
     Volume_MA |-> RollingMean(Volumes(df), i, VOLUME_MA_WINDOW),
     Recent_High |-> Hundredths(RollingMax(Highs(df), i, RECENT_WINDOW)),
     Recent_Low |-> Hundredths(RollingMin(Lows(df), i, RECENT_WINDOW))]

\* Close.pct_change() * 100 at row i, in hundredths of a percent
Price_Change_Pct(closes, i) ==
    IF i < 2 THEN NaN ELSE (10000 * (closes[i] - closes[i - 1])) \div closes[i - 1]

\* row i of generate_enhanced_signals(calculate_technical_indicators(data))
EquityRow(df, i) ==
    LET x == RuleInputs(df, i)
        lab == generate_enhanced_signals(x)
    IN  [SMA_20 |-> x.sma_short,
         SMA_50 |-> x.sma_long,
         RSI |-> x.rsi,
         Volume_MA |-> x.Volume_MA,
         Price_Change_Pct |-> Price_Change_Pct(Closes(df), i),
         Recent_High |-> x.Recent_High,
         Recent_Low |-> x.Recent_Low,
         Signal |-> lab.Signal,
         Position |-> lab.Position,
         Signal_Reason |-> lab.Signal_Reason]

EquityTable(df) == [i \in 1..Len(df) |-> EquityRow(df, i)]

\* calculate_fibonacci_levels: one level, in thousandths, from the last
\* FIB_BARS bars of the series; no column on a shorter series
fib_level(df, ratio) ==
    IF Len(df) < FIB_BARS THEN NaN
    ELSE LET recent_high == MaxRange(Highs(df), Len(df) - FIB_BARS + 1, Len(df))
             recent_low == MinRange(Lows(df), Len(df) - FIB_BARS + 1, Len(df))
             diff == recent_high - recent_low
         IN  1000 * recent_high - diff * ratio

\* row i of calculate_indicators(df): the columns it computes with pandas
\* itself and the two simple averages of the library; the level columns are
\* one scalar assigned to every row
MurphyRow(df, i) ==
    [sma_20 |-> RollingMean(Closes(df), i, SMA_20_WINDOW),
     sma_50 |-> RollingMean(Closes(df), i, SMA_50_WINDOW),
     volume_sma |-> RollingMean(Volumes(df), i, VOLUME_SMA_WINDOW),
     support |-> RollingMin(Lows(df), i, LEVEL_WINDOW),
     resistance |-> RollingMax(Highs(df), i, LEVEL_WINDOW),
     fib_236 |-> fib_level(df, 236),
     fib_382 |-> fib_level(df, 382),
     fib_500 |-> fib_level(df, 500),
     fib_618 |-> fib_level(df, 618)]

MurphyTable(df) == [i \in 1..Len(df) |-> MurphyRow(df, i)]

FibColumns == {"fib_236", "fib_382", "fib_500", "fib_618"}

\* the columns of the DataFrame returned by get_ohlcv_data
OhlcvColumns == {"open", "high", "low", "close", "volume"}

\* the columns calculate_indicators assigns on the DataFrame it is given
IndicatorColumns ==
    {"sma_20", "sma_50", "ema_12", "ema_26", "macd", "macd_signal", "macd_histogram",
     "rsi", "bb_upper", "bb_middle", "bb_lower", "bb_width", "volume_sma", "obv",
     "support", "resistance"}

\* the columns of the caller's object after calculate_indicators(df)
ColumnsAfterIndicators(df, cols) ==
    IF Len(df) = 0 THEN cols
    ELSE cols \cup IndicatorColumns \cup (IF Len(df) < FIB_BARS THEN {} ELSE FibColumns)

\* Bar Series of the tables: a quiet series with at most one bar that closes
\* 10 % higher, on heavy or on ordinary volume
BaseBar  == [high |-> 102, low |-> 98, close |-> 100, volume |-> 1000]
SpikeBars == { [high |-> 112, low |-> 99, close |-> 110, volume |-> v] : v \in {1000, 4000} }
CrashBar == [high |-> 100, low |-> 78, close |-> 80, volume |-> 4000]

TableLengths == {FIB_BARS - 1, FIB_BARS, RSI_PERIOD, RSI_PERIOD + 1}

TableSeries ==
    { [i \in 1..n |-> IF i = p THEN sb ELSE BaseBar] :
        n \in TableLengths, p \in 0..(RSI_PERIOD + 1), sb \in SpikeBars }

\* the bars a later fetch appends or puts in place of the latest bar
LaterBars == {BaseBar, CrashBar}

----------------------------------------------------------------------------
(* MurphyTechnicalAnalyzer.detect_patterns *)

\* Series.tail(n)
tail(xs, n) == IF Len(xs) <= n THEN xs ELSE SubSeq(xs, Len(xs) - n + 1, Len(xs))

\* position of the first largest value of a non-empty sequence
ArgMax(xs) ==
    CHOOSE i \in 1..Len(xs) :
        /\ \A j \in 1..Len(xs) : xs[j] <= xs[i]
        /\ \A j \in 1..(i - 1) : xs[j] < xs[i]

\* position of the first smallest value of a non-empty sequence
ArgMin(xs) ==
    CHOOSE i \in 1..Len(xs) :
        /\ \A j \in 1..Len(xs) : xs[j] >= xs[i]
        /\ \A j \in 1..(i - 1) : xs[j] > xs[i]

Without(xs, i) == SubSeq(xs, 1, i - 1) \o SubSeq(xs, i + 1, Len(xs))

\* Series.nlargest(n): the n largest values in decreasing order, equal values
\* in order of appearance
RECURSIVE nlargest(_, _)
nlargest(xs, n) ==
    IF n = 0 \/ Len(xs) = 0 THEN <<>>
    ELSE <<xs[ArgMax(xs)]>> \o nlargest(Without(xs, ArgMax(xs)), n - 1)

\* Series.nsmallest(n): the n smallest values in increasing order
RECURSIVE nsmallest(_, _)
nsmallest(xs, n) ==
    IF n = 0 \/ Len(xs) = 0 THEN <<>>
    ELSE <<xs[ArgMin(xs)]>> \o nsmallest(Without(xs, ArgMin(xs)), n - 1)

\* Head and Shoulders Detection (simplified)
head_shoulders(df) ==
    LET recent_highs == tail(Highs(df), PATTERN_BARS)
        peaks == nlargest(recent_highs, 3)
    IN  IF Len(recent_highs) >= 3 /\ Len(peaks) = 3
               /\ peaks[2] > peaks[1] /\ peaks[2] > peaks[3]
            THEN "BEARISH" ELSE "NONE"

\* Double Top: abs(max_high - second_max) / max_high < 0.02
double_top(df) ==
    LET highs == tail(Highs(df), DOUBLE_BARS)
        max_high == highs[ArgMax(highs)]
        second_max == nlargest(highs, 2)[2]
    IN  IF Len(highs) >= 2 /\ 50 * Abs(max_high - second_max) < max_high
            THEN "BEARISH" ELSE "NONE"

\* Double Bottom: abs(min_low - second_min) / min_low < 0.02
double_bottom(df) ==
    LET lows == tail(Lows(df), DOUBLE_BARS)
        min_low == lows[ArgMin(lows)]
        second_min == nsmallest(lows, 2)[2]
    IN  IF Len(lows) >= 2 /\ 50 * Abs(min_low - second_min) < min_low
            THEN "BULLISH" ELSE "NONE"

\* np.polyfit(range(len(ys)), ys, 1)[0] as a fraction: the least-squares slope
\* is sum((2x - (n-1)) * y) / (n * (n*n - 1) / 6) over x = 0 .. n-1
SlopeNum(ys) ==
    SumRange([k \in 1..Len(ys) |-> (2 * (k - 1) - (Len(ys) - 1)) * ys[k]], 1, Len(ys))

SlopeDen(ys) == (Len(ys) * (Len(ys) * Len(ys) - 1)) \div 6

\* slope > 0.1, slope < -0.1, abs(slope) < 0.1
SlopeUp(ys)   == 10 * SlopeNum(ys) > SlopeDen(ys)
SlopeDown(ys) == 10 * SlopeNum(ys) < -SlopeDen(ys)
SlopeFlat(ys) == 10 * Abs(SlopeNum(ys)) < SlopeDen(ys)

\* Triangle Pattern Detection (simplified)
triangle(df) ==
    LET recent_highs == tail(Highs(df), PATTERN_BARS)
        recent_lows == tail(Lows(df), PATTERN_BARS)
    IN  IF Len(df) < PATTERN_BARS THEN "NONE"
        ELSE IF SlopeFlat(recent_highs) /\ SlopeUp(recent_lows) THEN "ASCENDING"
        ELSE IF SlopeDown(recent_highs) /\ SlopeFlat(recent_lows) THEN "DESCENDING"
        ELSE IF SlopeDown(recent_highs) /\ SlopeUp(recent_lows) THEN "SYMMETRICAL"
        ELSE "NONE"

NoPatterns ==
    [head_shoulders |-> "NONE", double_top |-> "NONE", double_bottom |-> "NONE",
     triangle |-> "NONE", flag |-> "NONE"]

\* a length check that lets a 49-bar series through
PatternsTooShort_OffByOne(df) == Len(df) < MIN_PATTERN_BARS - 1

\* len(df) < 50
PatternsTooShort(df) == Len(df) < MIN_PATTERN_BARS

detect_patterns(df) ==
    IF PatternsTooShort(df) THEN NoPatterns
    ELSE [head_shoulders |-> head_shoulders(df),
          double_top |-> double_top(df),
          double_bottom |-> double_bottom(df),
          triangle |-> triangle(df),
          flag |-> "NONE"]

\* Bar Series for the pattern detector: quiet bars, and in the last 20 bars
\* highs that are flat or fall by 1 a bar, lows that are flat or rise by 1 a
\* bar, and three bars whose highs stand out by the given heights
PeakPositions == <<5, 10, 15>>
PeakHeights   == {0, 6, 10}
PatternLengths == {3, PATTERN_BARS, MIN_PATTERN_BARS - 1, MIN_PATTERN_BARS, MIN_PATTERN_BARS + 1}

PatternBar(n, i, peaks, falling, rising) ==
    LET j == i - (n - PATTERN_BARS)
        bump == IF \E k \in 1..3 : PeakPositions[k] = j
                    THEN peaks[CHOOSE k \in 1..3 : PeakPositions[k] = j] ELSE 0
    IN  [high |-> (IF falling /\ j >= 1 THEN 122 - j ELSE 102) + bump,
         low |-> IF rising /\ j >= 1 THEN 78 + j ELSE 98,
         close |-> 100, volume |-> 1000]

PatternSeries ==
    { [i \in 1..n |-> PatternBar(n, i, peaks, falling, rising)] :
        n \in PatternLengths,
        peaks \in [1..3 -> PeakHeights],
        falling \in BOOLEAN, rising \in BOOLEAN }

----------------------------------------------------------------------------
(* MurphyTechnicalAnalyzer.analyze_symbol *)

\* an exception that left analyze_symbol
Raised == [raised |-> TRUE]

FetchOutcomes == {"bars", "error"}
Steps == {"indicators", "signals"}

\* get_ohlcv_data: the length of the DataFrame it returns; an error of the
\* exchange is caught and answered with an empty DataFrame
get_ohlcv_data(outcome, len) == IF outcome = "error" THEN 0 ELSE len

\* the first step that raises: calculate_indicators, or generate_signals once
\* it is past its length check
RaisingStep(len, raising) ==
    IF "indicators" \in raising THEN "indicators"
    ELSE IF "signals" \in raising /\ ~TooShort(len) THEN "signals"
    ELSE "none"

\* a try block that ends before generate_signals
InsideTry_IndicatorsOnly(step) == step = "indicators"

\* try: ... except Exception: the steps inside the try block
InsideTry(step) == step \in {"indicators", "signals"}

\* signals['symbol'] = symbol ; signals['timeframe'] = timeframe
WithSymbol(sg) ==
    [k \in (DOMAIN sg) \cup {"symbol", "timeframe"} |->
        IF k = "symbol" THEN "BTC/USDT" ELSE IF k = "timeframe" THEN "4h" ELSE sg[k]]

analyze_symbol(outcome, len, l, p, now, raising) ==
    LET n == get_ohlcv_data(outcome, len)
        step == RaisingStep(n, raising)
    IN  IF n = 0 THEN empty_signal(now)
        ELSE IF step # "none"
            THEN (IF InsideTry(step) THEN empty_signal(now) ELSE Raised)
        ELSE WithSymbol(generate_signals(n, l, p, now))

\* latest rows handed to analyze_symbol
SymbolRows ==
    { q \in LatestRows : /\ q.sma_50 = 96 /\ q.support = 96 /\ q.resistance = 108
                         /\ q.bb_upper = q.sma_20 + 12 /\ q.macd = 1 }

----------------------------------------------------------------------------
(* InteractiveTradingBot: /watchlist *)

\* update.effective_user.id
Users == {1, 2}

\* the symbol argument as the user typed it: a name of letters, at most six of
\* them, in upper or lower case, with or without a suffix
SymbolArgs ==
    [name : {"BTC", "BBCA"}, lower : BOOLEAN, suffix : {"", ".JK"}]

\* the keys of crypto_pairs among the names
crypto_pairs == {"BTC"}

\* format_symbol: upper-case the text; a bare crypto name gets -USD, any other
\* text without .JK, -USD or -USDT gets .JK
format_symbol(arg) ==
    IF arg.suffix = "" /\ arg.name \in crypto_pairs
        THEN [name |-> arg.name, lower |-> FALSE, suffix |-> "-USD"]
    ELSE IF arg.suffix \notin {".JK", "-USD", "-USDT"}
        THEN [name |-> arg.name, lower |-> FALSE, suffix |-> ".JK"]
    ELSE [name |-> arg.name, lower |-> FALSE, suffix |-> arg.suffix]

\* context.args of the commands
WatchlistArgs ==
    {<<>>, <<"clear">>, <<"add">>, <<"list">>}
        \cup {<<verb, arg>> : verb \in {"add", "remove"}, arg \in SymbolArgs}

\* symbol in watchlist
InList(symbol, watchlist) == \E i \in DOMAIN watchlist : watchlist[i] = symbol

\* list.remove(symbol): the list without the first occurrence of the symbol
remove(watchlist, symbol) ==
    LET first == CHOOSE i \in DOMAIN watchlist :
                     /\ watchlist[i] = symbol
                     /\ \A j \in 1..(i - 1) : watchlist[j] # symbol
    IN  [k \in 1..(Len(watchlist) - 1) |->
            IF k < first THEN watchlist[k] ELSE watchlist[k + 1]]

\* stored[user_id] = list, for a user_id that may not be a key of the dict yet
SetItem(stored, user_id, list) ==
    [u \in (DOMAIN stored) \cup {user_id} |-> IF u = user_id THEN list ELSE stored[u]]

\* the stored list of a user, empty for a user without one
StoredList(stored, u) == IF u \in DOMAIN stored THEN stored[u] ELSE <<>>

\* an add that appends without looking for the symbol
watchlist_add_Always(stored, user_id, symbol) ==
    SetItem(stored, user_id, Append(StoredList(stored, user_id), symbol))

\* /watchlist add <symbol>
watchlist_add(stored, user_id, symbol) ==
    LET mine == StoredList(stored, user_id)
    IN  SetItem(stored, user_id,
                IF ~InList(symbol, mine) THEN Append(mine, symbol) ELSE mine)

\* /watchlist remove <symbol>
watchlist_remove(stored, user_id, symbol) ==
    IF user_id \in DOMAIN stored /\ InList(symbol, stored[user_id])
        THEN SetItem(stored, user_id, remove(stored[user_id], symbol))
        ELSE stored

\* watchlist_command: user_watchlists, a dict from user_id to list, after the
\* command
watchlist_command(stored, user_id, args) ==
    IF args = <<>> THEN stored
    ELSE IF args[1] = "add" /\ Len(args) > 1
        THEN watchlist_add(stored, user_id, format_symbol(args[2]))
    ELSE IF args[1] = "remove" /\ Len(args) > 1
        THEN watchlist_remove(stored, user_id, format_symbol(args[2]))
    ELSE IF args[1] = "clear"
        THEN SetItem(stored, user_id, <<>>)
    ELSE stored

----------------------------------------------------------------------------
(* ProductionTradingBot *)

\* self.max_errors = 5
max_errors == 5

\* ProductionTradingBot.__init__; runs counts the daily analyses started, the
\* time that datetime.now() is read from
NewProductionBot ==
    [running |-> FALSE, last_successful_run |-> None, error_count |-> 0, runs |-> 0]

\* whether bot.run_daily_analysis() (or the initialisation before it) raises
RunOutcomes == {"ok", "raises"}

\* a failure handler that stops the bot only above max_errors
run_daily_analysis_safe_Late(p, outcome) ==
    LET now == p.runs + 1
    IN  IF outcome = "ok"
            THEN [p EXCEPT !.runs = now,
                           !.last_successful_run = [at |-> now],
                           !.error_count = 0]
            ELSE LET count == p.error_count + 1
                 IN  [p EXCEPT !.runs = now,
                               !.error_count = count,
                               !.running = IF count > max_errors THEN FALSE ELSE @]

\* run_daily_analysis_safe: the fields of the object after the call
run_daily_analysis_safe(p, outcome) ==
    LET now == p.runs + 1
    IN  IF outcome = "ok"
            THEN [p EXCEPT !.runs = now,
                           !.last_successful_run = [at |-> now],
                           !.error_count = 0]
            ELSE LET count == p.error_count + 1
                 IN  [p EXCEPT !.runs = now,
                               !.error_count = count,
                               !.running = IF count >= max_errors THEN FALSE ELSE @]

----------------------------------------------------------------------------
(* IndonesianStockBot: the watchlist *)

ENABLE_WATCHLIST == TRUE
WATCHLIST_STOCKS == {"BBCA.JK", "BBRI.JK", "BMRI.JK", "TLKM.JK", "AADI.JK"}
WATCHLIST_PRICE_ALERT_PERCENTAGE == 5
ENABLE_WATCHLIST_VOLUME_ALERTS == TRUE
\* the 10 of [-10:]
KEPT_ENTRIES == 10

\* the fields of IndonesianStockBot.__init__ that the analysis writes, and
\* telegram, the messages handed to send_telegram_message
NewBot ==
    [signals_history |-> <<>>, watchlist_data |-> <<>>, watchlist_alerts |-> <<>>,
     telegram |-> <<>>]

is_watchlist_stock(symbol) == ENABLE_WATCHLIST /\ symbol \in WATCHLIST_STOCKS

\* a trim that keeps the first ten entries
last_entries_Oldest(list) ==
    IF Len(list) > KEPT_ENTRIES THEN SubSeq(list, 1, KEPT_ENTRIES) ELSE list

\* list[-10:]
last_entries(list) ==
    IF Len(list) > KEPT_ENTRIES
        THEN SubSeq(list, Len(list) - KEPT_ENTRIES + 1, Len(list))
        ELSE list

\* abs((current_price - last_price) / last_price * 100) >= 5.0, prices positive
significant_move(last_price, current_price) ==
    100 * Abs(current_price - last_price) >= WATCHLIST_PRICE_ALERT_PERCENTAGE * last_price

\* update_watchlist_data(symbol, signal_info) at the time current_time: the
\* fields of the bot after the call
update_watchlist_data(b, symbol, info, current_time) ==
    IF ~is_watchlist_stock(symbol) THEN b
    ELSE
        LET entry == IF symbol \in DOMAIN b.watchlist_data
                         THEN b.watchlist_data[symbol]
                         ELSE [last_price |-> info.current_price,
                               last_update |-> current_time,
                               price_alerts |-> <<>>, volume_alerts |-> <<>>,
                               signal_history |-> <<>>]
            last_price    == entry.last_price
            current_price == info.current_price
            price_alert  == IF significant_move(last_price, current_price)
                                THEN <<[type |-> "PRICE_MOVE", symbol |-> symbol,
                                        old_price |-> last_price,
                                        new_price |-> current_price,
                                        timestamp |-> current_time]>>
                                ELSE <<>>
            volume_alert == IF ENABLE_WATCHLIST_VOLUME_ALERTS
                               /\ info.volume_ratio > 100 * HIGH_VOLUME_SELL_MULTIPLIER
                                THEN <<[type |-> "HIGH_VOLUME", symbol |-> symbol,
                                        volume_ratio |-> info.volume_ratio,
                                        volume |-> info.volume,
                                        timestamp |-> current_time]>>
                                ELSE <<>>
            updated == [last_price |-> current_price,
                        last_update |-> current_time,
                        price_alerts |-> last_entries(entry.price_alerts \o price_alert),
                        volume_alerts |-> last_entries(entry.volume_alerts \o volume_alert),
                        signal_history |->
                            last_entries(Append(entry.signal_history,
                                                [signal |-> info.signal,
                                                 price |-> current_price,
                                                 timestamp |-> current_time]))]
        IN  [b EXCEPT !.watchlist_data = SetItem(b.watchlist_data, symbol, updated),
                      !.watchlist_alerts = @ \o price_alert \o volume_alert]

\* one symbol of the watchlist and one outside it
UpdateSymbols == {"BBCA.JK", "ASII.JK"}

\* the fields of signal_info that update_watchlist_data reads: a quiet bar
\* at 106 and a bar at 100 on 3.5 times the usual volume
UpdateInfos ==
    {[signal |-> "BUY", current_price |-> 106, volume_ratio |-> 100, volume |-> 1000],
     [signal |-> "SELL", current_price |-> 100, volume_ratio |-> 350, volume |-> 3500]}

----------------------------------------------------------------------------
(* IndonesianStockBot.get_chatgpt_confirmation; confidences in thousandths *)

ENABLE_CHATGPT_CONFIRMATION == TRUE
CHATGPT_CONFIDENCE_THRESHOLD == 700
CHATGPT_MAX_RETRIES == 2

\* what one API attempt can end with: an exception of the client, a reply that
\* is not JSON, a JSON reply that lacks a required field, or a JSON reply with
\* confirmed, confidence, analysis and recommendation
Replies ==
    [kind : {"reply"}, recommendation : {"CONFIRM", "REJECT"},
     confidence : {410, 420, 690, 700}]

AttemptOutcomes ==
    {[kind |-> "api_error"], [kind |-> "not_json"], [kind |-> "missing_field"]}
        \cup Replies

\* what the API does on each of the attempts the loop can make
AttemptSequences == [1..CHATGPT_MAX_RETRIES -> AttemptOutcomes]

\* the record returned when the client is missing or the confirmation is off
Disabled ==
    [confirmed |-> TRUE, confidence |-> 1000,
     analysis |-> "ChatGPT confirmation disabled",
     recommendation |-> "Proceed with original signal"]

\* the fallback of except json.JSONDecodeError
FallbackText ==
    [confirmed |-> TRUE, confidence |-> 500, analysis |-> "text of the reply",
     recommendation |-> "CONFIRM"]

\* the fallback of the outer except Exception
ErrorFallback ==
    [confirmed |-> TRUE, confidence |-> 500, analysis |-> "ChatGPT analysis failed",
     recommendation |-> "PROCEED_WITH_CAUTION"]

\* return analysis_result: the parsed reply
analysis_result(r) ==
    [confirmed |-> r.recommendation # "REJECT", confidence |-> r.confidence,
     analysis |-> "analysis of the reply", recommendation |-> r.recommendation]

\* for attempt in range(CHATGPT_MAX_RETRIES), from the given attempt on (the
\* first is 0); a function body that ends without a return yields None
RECURSIVE Attempts(_, _)
Attempts(outcomes, attempt) ==
    IF attempt >= CHATGPT_MAX_RETRIES THEN None
    ELSE LET r == outcomes[attempt + 1]
         IN  IF r.kind = "reply" THEN analysis_result(r)
             ELSE IF r.kind = "missing_field" THEN Attempts(outcomes, attempt + 1)
             ELSE IF r.kind = "not_json" THEN FallbackText
             ELSE IF attempt < CHATGPT_MAX_RETRIES - 1
                 THEN Attempts(outcomes, attempt + 1)
             ELSE ErrorFallback

get_chatgpt_confirmation(openai_client, outcomes) ==
    IF ~openai_client \/ ~ENABLE_CHATGPT_CONFIRMATION THEN Disabled
    ELSE Attempts(outcomes, 0)

----------------------------------------------------------------------------
(* IndonesianStockBot.analyze_stock *)

WATCHLIST_ALERT_THRESHOLD == 500
\* 1.2, in tenths
WATCHLIST_PRIORITY_MULTIPLIER == 12
ENABLE_HOLD_SIGNALS == TRUE
HOLD_SIGNAL_CONFIDENCE_THRESHOLD == 300
SEND_HOLD_SIGNALS_REGARDLESS_OF_CONFIDENCE == TRUE

\* one latest bar of a 52-bar series for each direction, valid and invalid
StockBars ==
    { CHOOSE x \in Bars(SMA_LONG_PERIOD + 1) :
          generate_enhanced_signals(x).Signal = sig /\ SignalValid(x) = valid :
      sig \in {"BUY", "SELL", "STRONG_SELL", "HOLD"}, valid \in BOOLEAN }

\* what fetch_stock_data returns: too few bars, or a series ending in a bar
FetchedData ==
    {[len |-> SMA_LONG_PERIOD - 1, bar |-> ShortBar]}
        \cup {[len |-> SMA_LONG_PERIOD + 2, bar |-> x] : x \in StockBars}

\* a record with further keys set
WithKeys(rec, extra) ==
    [k \in (DOMAIN rec) \cup (DOMAIN extra) |->
        IF k \in DOMAIN extra THEN extra[k] ELSE rec[k]]

\* a gate that lets every direction through, valid or not
wants_delivery_Invalid(info) ==
    info.signal \in {"BUY", "SELL", "STRONG_SELL", "HOLD"}

\* signal_info['signal'] in [...] and signal_info['valid']
wants_delivery(info) ==
    info.signal \in {"BUY", "SELL", "STRONG_SELL", "HOLD"} /\ info.valid

\* the threshold the confidence is compared with
confidence_threshold(signal, symbol) ==
    IF signal = "HOLD"
        THEN IF ~ENABLE_HOLD_SIGNALS THEN CHATGPT_CONFIDENCE_THRESHOLD
             ELSE IF SEND_HOLD_SIGNALS_REGARDLESS_OF_CONFIDENCE THEN 0
             ELSE HOLD_SIGNAL_CONFIDENCE_THRESHOLD
    ELSE IF is_watchlist_stock(symbol) THEN WATCHLIST_ALERT_THRESHOLD
    ELSE CHATGPT_CONFIDENCE_THRESHOLD

\* the confirmation after the boost for watchlist stocks, which is written
\* into the confirmation dict itself
boosted(confirmation, signal, symbol) ==
    IF signal # "HOLD" /\ is_watchlist_stock(symbol)
        THEN [confirmation EXCEPT
                 !.confidence = Min(1000, (@ * WATCHLIST_PRIORITY_MULTIPLIER) \div 10)]
        ELSE confirmation

\* should_send_signal, for a confirmation that is a dict
should_send_signal(signal, symbol, confirmation, openai_client) ==
    /\ ~(signal = "HOLD" /\ ~ENABLE_HOLD_SIGNALS)
    /\ (ENABLE_CHATGPT_CONFIRMATION /\ openai_client) =>
          /\ confirmation.recommendation # "REJECT"
          /\ ~(confirmation.confidence < confidence_threshold(signal, symbol))

\* analyze_stock(symbol): the fields of the bot after the call, what the call
\* returned (None, a signal_info, or Raised when an exception left it) and the
\* confirmation it got.  A confirmation of None fails at the first use of
\* confirmation.get or of 'confidence' in confirmation.
analyze_stock(b, symbol, data, openai_client, outcomes, now) ==
    IF InsufficientData(data.len)
        THEN [bot |-> b, returned |-> None, confirmation |-> None]
    ELSE
        LET info == WithKeys(validate_signal(data.len, data.bar,
                                             generate_enhanced_signals(data.bar)),
                             [symbol |-> symbol])
        IN  IF ~wants_delivery(info)
                THEN [bot |-> b, returned |-> info, confirmation |-> None]
            ELSE
                LET got == get_chatgpt_confirmation(openai_client, outcomes)
                IN  IF got = None
                        THEN [bot |-> b, returned |-> Raised, confirmation |-> None]
                    ELSE
                        LET confirmation == boosted(got, info.signal, symbol)
                            send    == should_send_signal(info.signal, symbol,
                                                          confirmation, openai_client)
                            message == <<[kind |-> "signal", symbol |-> symbol,
                                          signal |-> info.signal]>>
                            ai_message ==
                                IF ENABLE_CHATGPT_CONFIRMATION /\ openai_client
                                    THEN <<[kind |-> "ai_analysis", symbol |-> symbol,
                                            signal |-> info.signal]>>
                                    ELSE <<>>
                            returned ==
                                IF send
                                    THEN WithKeys(info,
                                             [chatgpt_confirmation |-> confirmation])
                                    ELSE WithKeys(info,
                                             [chatgpt_filtered |-> TRUE,
                                              chatgpt_confirmation |-> confirmation])
                            after ==
                                IF send
                                    THEN [b EXCEPT
                                             !.telegram = @ \o message \o ai_message,
                                             !.signals_history = Append(@, returned)]
                                    ELSE b
                        IN  [bot |-> update_watchlist_data(after, symbol, returned, now),
                             returned |-> returned,
                             confirmation |-> confirmation]

----------------------------------------------------------------------------
(* IndonesianStockBot.run_daily_analysis *)

\* three of the ten symbols of INDONESIAN_STOCKS, the first of them on the
\* watchlist
INDONESIAN_STOCKS == <<"TLKM.JK", "ASII.JK", "UNVR.JK">>

\* what the API does during one analysis of the daily run: a confident
\* CONFIRM, a REJECT, or replies that lack a required field
DailyOutcomes ==
    { [n \in 1..CHATGPT_MAX_RETRIES |-> r] :
        r \in {[kind |-> "reply", recommendation |-> "CONFIRM", confidence |-> 700],
               [kind |-> "reply", recommendation |-> "REJECT", confidence |-> 700],
               [kind |-> "missing_field"]} }

\* the counters of run_daily_analysis before the loop; i is the loop index,
\* returned lists what analyze_stock returned for each stock so far
NewCounters(openai_client) ==
    [openai_client |-> openai_client, i |-> 0,
     signals_sent |-> 0, buy_signals |-> 0, sell_signals |-> 0,
     strong_sell_signals |-> 0, hold_signals |-> 0,
     chatgpt_filtered |-> 0, chatgpt_confirmed |-> 0, returned |-> <<>>]

\* whether the loop body counts the signal as filtered
IsFiltered(info) ==
    "chatgpt_filtered" \in DOMAIN info /\ info.chatgpt_filtered

\* the body of the loop after analyze_stock: the counters after one stock; an
\* exception of analyze_stock is caught and only logged
count_signal(c, info) ==
    LET counted == [c EXCEPT !.i = @ + 1, !.returned = Append(@, info)]
    IN  IF info \in {None, Raised} THEN counted
        ELSE IF info.signal \notin {"BUY", "SELL", "STRONG_SELL", "HOLD"} THEN counted
        ELSE IF IsFiltered(info) THEN [counted EXCEPT !.chatgpt_filtered = @ + 1]
        ELSE [counted EXCEPT
                 !.signals_sent = @ + 1,
                 !.chatgpt_confirmed = @ + 1,
                 !.buy_signals = IF info.signal = "BUY" THEN @ + 1 ELSE @,
                 !.sell_signals = IF info.signal = "SELL" THEN @ + 1 ELSE @,
                 !.strong_sell_signals =
                     IF info.signal = "STRONG_SELL" THEN @ + 1 ELSE @,
                 !.hold_signals = IF info.signal = "HOLD" THEN @ + 1 ELSE @]

\* the summary message
summary_message(c) ==
    [kind |-> "summary", stocks_analyzed |-> Len(INDONESIAN_STOCKS),
     signals_sent |-> c.signals_sent, buy_signals |-> c.buy_signals,
     sell_signals |-> c.sell_signals, strong_sell_signals |-> c.strong_sell_signals,
     hold_signals |-> c.hold_signals, chatgpt_filtered |-> c.chatgpt_filtered]

\* send_watchlist_alerts: one message for the alerts gathered, which are then
\* cleared
send_watchlist_alerts(b) ==
    IF ~ENABLE_WATCHLIST \/ b.watchlist_alerts = <<>> THEN b
    ELSE [b EXCEPT !.telegram = Append(@, [kind |-> "watchlist_alerts"]),
                   !.watchlist_alerts = <<>>]

----------------------------------------------------------------------------
(* State machine *)

Init ==
    /\ variant \in {"murphy", "equity", "murphy_table", "equity_table", "patterns",
                     "symbol", "interactive", "production", "watchlist",
                     "stock", "daily"}
    /\ pc = "start"
    /\ IF variant \in {"murphy_table", "equity_table"}
           THEN series \in TableSeries
           ELSE IF variant = "patterns"
               THEN series \in PatternSeries
               ELSE series = <<>>
    /\ patterns = None
    /\ IF variant = "symbol"
           THEN fetch \in FetchOutcomes /\ faults \in SUBSET Steps
           ELSE fetch = "bars" /\ faults = {}
    /\ columns = IF variant \in {"murphy_table", "equity_table"} THEN OhlcvColumns ELSE {}
    /\ table = <<>>
    /\ kept = 0
    /\ retable = <<>>
    /\ IF variant # "equity"
           THEN /\ df_len \in IF variant \in {"murphy", "symbol"} THEN SeriesLengths ELSE {0}
                /\ IF TooShort(df_len) \/ variant \notin {"murphy", "symbol"}
                       THEN latest = ShortLatest /\ prev = ShortPrev
                       ELSE /\ latest \in IF variant = "murphy"
                                              THEN LatestRows \cup GapRows ELSE SymbolRows
                            /\ prev \in PrevRows
                /\ bar_index = 0
                /\ bar = ShortBar
           ELSE /\ df_len \in EquityLengths
                /\ latest = ShortLatest
                /\ prev = ShortPrev
                /\ IF InsufficientData(df_len)
                       THEN bar_index = 0 /\ bar = ShortBar
                       ELSE /\ bar_index \in BarIndexes(df_len)
                            /\ bar \in Bars(bar_index)
    /\ signals = None
    /\ labels = NoLabels
    /\ signal_info = None
    /\ clock = 0
    /\ repeat = None
    /\ bot = IF variant \in {"watchlist", "stock", "daily"} THEN NewBot ELSE None
    /\ call = None
    /\ production = IF variant = "production" THEN NewProductionBot ELSE None
    /\ user_watchlists = <<>>

\* MurphyTechnicalAnalyzer.generate_signals(df)
GenerateSignals ==
    /\ variant = "murphy"
    /\ pc = "start"
    /\ signals' = generate_signals(df_len, latest, prev, clock)
    /\ pc' = "done"
    /\ UNCHANGED <<variant, df_len, latest, prev, bar_index, bar, labels, signal_info,
                   clock, repeat, tableVars, botVars>>

\* IndonesianStockBot.analyze_stock, insufficient data: return None
AnalyzeStockInsufficient ==
    /\ variant = "equity"
    /\ pc = "start"
    /\ InsufficientData(df_len)
    /\ signal_info' = None
    /\ pc' = "done"
    /\ UNCHANGED <<variant, df_len, latest, prev, signals, bar_index, bar, labels,
                   clock, repeat, tableVars, botVars>>

\* analyze_stock: data_with_signals = self.generate_enhanced_signals(data);
\* the vectorised rules label every bar, the run follows bar_index
GenerateEnhancedSignals ==
    /\ variant = "equity"
    /\ pc = "start"
    /\ ~InsufficientData(df_len)
    /\ labels' = generate_enhanced_signals(bar)
    /\ pc' = "signals"
    /\ UNCHANGED <<variant, df_len, latest, prev, signals, bar_index, bar, signal_info,
                   clock, repeat, tableVars, botVars>>

\* analyze_stock: signal_info = self.validate_signal(data_with_signals, symbol);
\* validate_signal reads data.iloc[-1], the latest bar
ValidateSignal ==
    /\ variant = "equity"
    /\ pc = "signals"
    /\ bar_index = df_len - 1
    /\ signal_info' = validate_signal(df_len, bar, labels)
    /\ pc' = "done"
    /\ UNCHANGED <<variant, df_len, latest, prev, signals, bar_index, bar, labels,
                   clock, repeat, tableVars, botVars>>

\* time passes between the first and the second analysis call
Tick ==
    /\ pc = "done"
    /\ clock < MaxClock
    /\ clock' = clock + 1
    /\ UNCHANGED <<variant, pc, df_len, latest, prev, signals, bar_index, bar, labels,
                   signal_info, repeat, tableVars, botVars>>

\* a second generate_signals(df) on the same DataFrame
GenerateSignalsAgain ==
    /\ variant = "murphy"
    /\ pc = "done"
    /\ repeat' = generate_signals(df_len, latest, prev, clock)
    /\ pc' = "twice"
    /\ UNCHANGED <<variant, df_len, latest, prev, signals, bar_index, bar, labels,
                   signal_info, clock, tableVars, botVars>>

\* a second generate_enhanced_signals / validate_signal on the same data, or
\* a second analyze_stock on a series that is too short
AnalyzeStockAgain ==
    /\ variant = "equity"
    /\ pc = "done"
    /\ repeat' = IF InsufficientData(df_len) THEN None
                 ELSE validate_signal(df_len, bar, generate_enhanced_signals(bar))
    /\ pc' = "twice"
    /\ UNCHANGED <<variant, df_len, latest, prev, signals, bar_index, bar, labels,
                   signal_info, clock, tableVars, botVars>>

\* calculate_indicators(df), and again after the series was edited
CalculateIndicators ==
    /\ variant = "murphy_table"
    /\ pc \in {"start", "edited"}
    /\ IF pc = "start"
           THEN table' = MurphyTable(series) /\ retable' = retable /\ pc' = "table"
           ELSE retable' = MurphyTable(series) /\ table' = table /\ pc' = "compared"
    /\ columns' = ColumnsAfterIndicators(series, columns)
    /\ UNCHANGED <<variant, df_len, latest, prev, signals, bar_index, bar, labels,
                   signal_info, clock, repeat, series, kept, patterns, fetch, faults, botVars>>

\* generate_enhanced_signals(calculate_technical_indicators(data)), and again
\* after the series was edited
CalculateTechnicalIndicators ==
    /\ variant = "equity_table"
    /\ pc \in {"start", "edited"}
    /\ IF pc = "start"
           THEN table' = EquityTable(series) /\ retable' = retable /\ pc' = "table"
           ELSE retable' = EquityTable(series) /\ table' = table /\ pc' = "compared"
    /\ UNCHANGED <<variant, df_len, latest, prev, signals, bar_index, bar, labels,
                   signal_info, clock, repeat, series, kept, patterns, columns, fetch, faults, botVars>>

\* the next fetch returns the series with one more bar
AppendBar ==
    /\ variant \in {"murphy_table", "equity_table"}
    /\ pc = "table"
    /\ \E b \in LaterBars : series' = Append(series, b)
    /\ kept' = Len(series)
    /\ pc' = "edited"
    /\ columns' = OhlcvColumns
    /\ UNCHANGED <<variant, df_len, latest, prev, signals, bar_index, bar, labels,
                   signal_info, clock, repeat, table, retable, patterns, fetch, faults, botVars>>

\* the next fetch returns the series with its latest, unfinished bar revised
ChangeLatestBar ==
    /\ variant \in {"murphy_table", "equity_table"}
    /\ pc = "table"
    /\ \E b \in LaterBars \ {series[Len(series)]} :
           series' = [series EXCEPT ![Len(series)] = b]
    /\ kept' = Len(series) - 1
    /\ pc' = "edited"
    /\ columns' = OhlcvColumns
    /\ UNCHANGED <<variant, df_len, latest, prev, signals, bar_index, bar, labels,
                   signal_info, clock, repeat, table, retable, patterns, fetch, faults, botVars>>

\* detect_patterns(df)
DetectPatterns ==
    /\ variant = "patterns"
    /\ pc = "start"
    /\ patterns' = detect_patterns(series)
    /\ pc' = "detected"
    /\ UNCHANGED <<variant, df_len, latest, prev, signals, bar_index, bar, labels,
                   signal_info, clock, repeat, series, table, kept, retable, columns, fetch, faults, botVars>>

\* MurphyTechnicalAnalyzer.analyze_symbol(symbol, timeframe)
AnalyzeSymbol ==
    /\ variant = "symbol"
    /\ pc = "start"
    /\ signals' = analyze_symbol(fetch, df_len, latest, prev, clock, faults)
    /\ pc' = "returned"
    /\ UNCHANGED <<variant, df_len, latest, prev, bar_index, bar, labels, signal_info,
                   clock, repeat, tableVars, botVars>>

\* a user sends /watchlist with some arguments
WatchlistCommand ==
    /\ variant = "interactive"
    /\ \E user_id \in Users, args \in WatchlistArgs :
          /\ user_watchlists' = watchlist_command(user_watchlists, user_id, args)
          /\ call' = [user_id |-> user_id, args |-> args, before |-> user_watchlists]
    /\ pc' = "handled"
    /\ UNCHANGED <<variant, bot, production, engineVars>>

\* run_production up to its main loop: running = True, then the bot is
\* initialised; a failed initialisation returns at once
RunProduction ==
    /\ variant = "production"
    /\ pc = "start"
    /\ production' = [production EXCEPT !.running = TRUE]
    /\ \E initialised \in BOOLEAN : pc' = IF initialised THEN "looping" ELSE "returned"
    /\ UNCHANGED <<variant, bot, call, user_watchlists, engineVars>>

\* the main loop runs the scheduled run_daily_analysis_safe
RunDailyAnalysisSafe ==
    /\ variant = "production"
    /\ pc = "looping"
    /\ production.running
    /\ production.runs < MaxRuns
    /\ \E outcome \in RunOutcomes :
          /\ production' = run_daily_analysis_safe(production, outcome)
          /\ call' = [outcome |-> outcome, before |-> production]
    /\ UNCHANGED <<variant, pc, bot, user_watchlists, engineVars>>

\* while self.running: the loop is left once running is False
ProductionLoopEnds ==
    /\ variant = "production"
    /\ pc = "looping"
    /\ ~production.running
    /\ pc' = "ended"
    /\ UNCHANGED <<variant, bot, call, production, user_watchlists, engineVars>>

\* signal_handler: SIGINT or SIGTERM sets running = False and exits the process
SignalHandler ==
    /\ variant = "production"
    /\ pc = "looping"
    /\ production' = [production EXCEPT !.running = FALSE]
    /\ pc' = "exited"
    /\ UNCHANGED <<variant, bot, call, user_watchlists, engineVars>>

\* update_watchlist_data(symbol, signal_info); datetime.now() is read, and
\* the clock moves, only for a watchlist symbol
UpdateWatchlistData ==
    /\ variant = "watchlist"
    /\ clock < MaxUpdates
    /\ \E symbol \in UpdateSymbols, info \in UpdateInfos :
          /\ clock' = IF is_watchlist_stock(symbol) THEN clock + 1 ELSE clock
          /\ bot' = update_watchlist_data(bot, symbol, info, clock + 1)
          /\ call' = [symbol |-> symbol, signal_info |-> info]
    /\ pc' = "updated"
    /\ UNCHANGED <<variant, production, user_watchlists, df_len, latest, prev, signals,
                   bar_index, bar, labels, signal_info, repeat, tableVars>>

\* analyze_stock(symbol), from the fetch to the return
AnalyzeStock ==
    /\ variant = "stock"
    /\ pc = "start"
    /\ \E symbol \in UpdateSymbols, data \in FetchedData, openai_client \in BOOLEAN,
          outcomes \in AttemptSequences :
          LET result == analyze_stock(bot, symbol, data, openai_client, outcomes,
                                      clock + 1)
          IN  /\ df_len' = data.len
              /\ bar_index' = data.len - 1
              /\ bar' = data.bar
              /\ bot' = result.bot
              /\ signal_info' = result.returned
              /\ call' = [symbol |-> symbol, openai_client |-> openai_client,
                          outcomes |-> outcomes,
                          confirmation |-> result.confirmation]
    /\ pc' = "returned"
    /\ UNCHANGED <<variant, production, user_watchlists, latest, prev, signals, labels,
                   clock, repeat, tableVars>>

\* run_daily_analysis up to its loop: the counters are zeroed and the start
\* message is sent; the bot has an OpenAI client or not
RunDailyAnalysis ==
    /\ variant = "daily"
    /\ pc = "start"
    /\ \E openai_client \in BOOLEAN : call' = NewCounters(openai_client)
    /\ bot' = [bot EXCEPT !.telegram = Append(@, [kind |-> "start"])]
    /\ pc' = "analysing"
    /\ UNCHANGED <<variant, production, user_watchlists, engineVars>>

\* one pass of the loop: analyze_stock(symbol) and the counting
AnalyzeNextStock ==
    /\ variant = "daily"
    /\ pc = "analysing"
    /\ call.i < Len(INDONESIAN_STOCKS)
    /\ \E data \in FetchedData, outcomes \in DailyOutcomes :
          LET result == analyze_stock(bot, INDONESIAN_STOCKS[call.i + 1], data,
                                      call.openai_client, outcomes, call.i + 1)
          IN  /\ bot' = result.bot
              /\ call' = count_signal(call, result.returned)
    /\ UNCHANGED <<variant, pc, production, user_watchlists, engineVars>>

\* after the loop: the summary, the watchlist alerts and the watchlist summary
SendSummary ==
    /\ variant = "daily"
    /\ pc = "analysing"
    /\ call.i = Len(INDONESIAN_STOCKS)
    /\ bot' = LET b == send_watchlist_alerts(
                           [bot EXCEPT !.telegram = Append(@, summary_message(call))])
               IN  [b EXCEPT !.telegram = Append(@, [kind |-> "watchlist_summary"])]
    /\ pc' = "summarised"
    /\ UNCHANGED <<variant, call, production, user_watchlists, engineVars>>

Next ==
    \/ GenerateSignals
    \/ AnalyzeStockInsufficient
    \/ GenerateEnhancedSignals
    \/ ValidateSignal
    \/ Tick
    \/ GenerateSignalsAgain
    \/ AnalyzeStockAgain
    \/ CalculateIndicators
    \/ CalculateTechnicalIndicators
    \/ AppendBar
    \/ ChangeLatestBar
    \/ DetectPatterns
    \/ AnalyzeSymbol
    \/ WatchlistCommand
    \/ UpdateWatchlistData
    \/ AnalyzeStock
    \/ RunDailyAnalysis
    \/ AnalyzeNextStock
    \/ SendSummary
    \/ RunProduction
    \/ RunDailyAnalysisSafe
    \/ ProductionLoopEnds
    \/ SignalHandler

Spec == Init /\ [][Next]_vars

----------------------------------------------------------------------------
(* Properties *)

\* generate_signals has returned for a series long enough to be analysed
MurphyAnalysed == variant = "murphy" /\ pc = "done" /\ df_len >= MIN_BARS

\* generate_enhanced_signals has labelled the bar
EquityLabelled == variant = "equity" /\ pc \in {"signals", "done"} /\ labels # NoLabels

\* validate_signal has returned its signal_info
EquityValidated == variant = "equity" /\ pc = "done" /\ signal_info # None

ZeroLevels(sg) ==
    /\ sg.entry_price = 0
    /\ sg.stop_loss = 0
    /\ sg.take_profit = 0
    /\ sg.risk_reward = 0

CountedTags(sg) ==
    sg.analysis.trend \o sg.analysis.momentum \o sg.analysis.volatility

Bullish(sg) == Len(SelectSeq(CountedTags(sg), IsBullishTag))
Bearish(sg) == Len(SelectSeq(CountedTags(sg), IsBearishTag))

\* C2: generate_signals decides from the bullish and bearish counts b and s of
\* the latest bar: BUY with confidence min(20*b, 100) iff b > s and b >= 2;
\* SELL with confidence min(20*s, 100) iff s > b and s >= 2; otherwise, in
\* particular whenever b = s, HOLD with confidence 50.
C2_DirectionFromCounts ==
    MurphyAnalysed =>
        LET b == Bullish(signals)
            s == Bearish(signals)
        IN  /\ signals.signal = "BUY" <=> (b > s /\ b >= 2)
            /\ signals.signal = "SELL" <=> (s > b /\ s >= 2)
            /\ signals.signal = "HOLD" <=> ~(b > s /\ b >= 2) /\ ~(s > b /\ s >= 2)
            /\ signals.signal = "BUY" =>
                  signals.confidence = (IF 20 * b < 100 THEN 20 * b ELSE 100)
            /\ signals.signal = "SELL" =>
                  signals.confidence = (IF 20 * s < 100 THEN 20 * s ELSE 100)
            /\ signals.signal = "HOLD" => signals.confidence = 50
            /\ b = s => signals.signal = "HOLD" /\ signals.confidence = 50

\* a tie of two bullish against two bearish tags, resolved to HOLD
C2_Witness ==
    /\ MurphyAnalysed
    /\ Bullish(signals) = 2
    /\ Bearish(signals) = 2
    /\ signals.signal = "HOLD"

\* close > short average > long average, the fast average crossing above the
\* slow one exactly at the latest bar, RSI at or below the overbought threshold
MurphyBullishSetup ==
    /\ Gt(latest.close, latest.sma_20) /\ Gt(latest.sma_20, latest.sma_50)
    /\ Gt(latest.ema_12, latest.ema_26) /\ Le(prev.ema_12, prev.ema_26)
    /\ Le(latest.rsi, RSI_OVERBOUGHT_SHORT)

EquityBullishSetup ==
    /\ Gt(bar.Close, bar.sma_short) /\ Gt(bar.sma_short, bar.sma_long)
    /\ Le(bar.sma_short_1, bar.sma_long_1)
    /\ Le(bar.rsi, RSI_OVERBOUGHT_THRESHOLD)

\* C3 (as stated): in both engines, whenever close > short average > long
\* average, the fast average crosses above the slow one at the latest bar and
\* RSI <= the overbought threshold, the direction is BUY or HOLD and never
\* SELL or STRONG_SELL, whatever the volume and the price change are.
C3_Original ==
    /\ (MurphyAnalysed /\ MurphyBullishSetup) => signals.signal \in {"BUY", "HOLD"}
    /\ (EquityLabelled /\ EquityBullishSetup) => labels.Signal \in {"BUY", "HOLD"}

\* volume above 3x the baseline with a one-bar drop beyond 5 %
BarHighVolumeDrop ==
    /\ ~IsNaN(bar.Volume_MA)
    /\ bar.Volume > HIGH_VOLUME_SELL_MULTIPLIER * bar.Volume_MA
    /\ ~IsNaN(bar.Close_1)
    /\ 100 * (bar.Close - bar.Close_1) < SELL_OFF_PCT * bar.Close_1

\* 10-bar mean of the close above its value 10 bars earlier, RSI above 70 and
\* below its value 10 bars earlier
BarBearishDivergence ==
    /\ Gt(bar.close_ma10, bar.close_ma10_10)
    /\ Lt(bar.rsi, bar.rsi_10)
    /\ Gt(bar.rsi, RSI_DIVERGENCE)

\* C3 (amended): under that setup generate_signals returns BUY; and
\* generate_enhanced_signals labels the bar BUY or HOLD unless a high-volume
\* sell-off (volume above 3x the baseline with a drop beyond 5 %, the crash
\* condition included) or a bearish divergence holds at that bar, in which
\* case the bar is SELL or STRONG_SELL.
C3_BullishSetup ==
    /\ (MurphyAnalysed /\ MurphyBullishSetup) => signals.signal = "BUY"
    /\ (EquityLabelled /\ EquityBullishSetup) =>
          IF BarHighVolumeDrop \/ BarBearishDivergence
              THEN labels.Signal \in {"SELL", "STRONG_SELL"}
              ELSE labels.Signal \in {"BUY", "HOLD"}

\* the setup with a sell-off on the same bar: the bar is not a buy
C3_Witness ==
    /\ EquityLabelled
    /\ EquityBullishSetup
    /\ BarHighVolumeDrop
    /\ labels.Signal = "STRONG_SELL"

AnyStrongSell(x) ==
    strong_sell_multiple(x) \/ strong_sell_extreme(x) \/ strong_sell_crash(x)

AnyRegularSell(x) ==
    \/ sma_cross_confirmed(x)
    \/ sell_rsi_overbought(x)
    \/ sell_high_volume(x)
    \/ sell_divergence(x)

\* C4: generate_enhanced_signals gives every bar exactly one Signal with
\* precedence STRONG_SELL > SELL > BUY > HOLD: STRONG_SELL iff a strong-sell
\* condition holds; SELL iff a regular sell condition and no strong-sell
\* condition holds; BUY iff a buy condition and no sell or strong-sell
\* condition holds; HOLD otherwise.  No bar is in both the SELL and the
\* STRONG_SELL set.
C4_Precedence ==
    EquityLabelled =>
        /\ labels.Signal \in {"STRONG_SELL", "SELL", "BUY", "HOLD"}
        /\ labels.Signal = "STRONG_SELL" <=> AnyStrongSell(bar)
        /\ labels.Signal = "SELL" <=> (AnyRegularSell(bar) /\ ~AnyStrongSell(bar))
        /\ labels.Signal = "BUY" <=>
              (buy_condition(bar) /\ ~AnyRegularSell(bar) /\ ~AnyStrongSell(bar))
        /\ labels.Signal = "HOLD" <=>
              (~buy_condition(bar) /\ ~AnyRegularSell(bar) /\ ~AnyStrongSell(bar))
        /\ ~(regular_sell(bar) /\ strong_sell(bar))
        /\ labels.Position = (CASE labels.Signal = "STRONG_SELL" -> -2
                                [] labels.Signal = "SELL" -> -1
                                [] labels.Signal = "BUY" -> 1
                                [] OTHER -> 0)

\* a bar where a buy, a regular sell and a strong-sell condition all hold
C4_Witness ==
    /\ EquityLabelled
    /\ buy_condition(bar)
    /\ AnyRegularSell(bar)
    /\ AnyStrongSell(bar)
    /\ labels.Signal = "STRONG_SELL"

\* C5: with the shipped thresholds every bar labelled STRONG_SELL also
\* satisfies at least one regular-SELL condition (confirmed bearish SMA
\* crossover, RSI above the overbought threshold, high-volume sell-off, or
\* bearish divergence).
C5_MonotonicEscalation ==
    (EquityLabelled /\ labels.Signal = "STRONG_SELL") =>
        \/ sma_cross_confirmed(bar)
        \/ sell_rsi_overbought(bar)
        \/ sell_high_volume(bar)
        \/ sell_divergence(bar)

\* a STRONG_SELL that rests on the crash condition alone
C5_Witness ==
    /\ EquityLabelled
    /\ labels.Signal = "STRONG_SELL"
    /\ strong_sell_crash(bar)
    /\ ~strong_sell_multiple(bar)
    /\ ~strong_sell_extreme(bar)
    /\ ~sell_rsi_overbought(bar)
    /\ ~sma_cross_confirmed(bar)
    /\ ~sell_divergence(bar)

\* volume above 3x a defined 20-bar baseline and a close-to-close change below -10 %
BarCrash ==
    /\ ~IsNaN(bar.Volume_MA)
    /\ bar.Volume > HIGH_VOLUME_SELL_MULTIPLIER * bar.Volume_MA
    /\ ~IsNaN(bar.Close_1)
    /\ 100 * (bar.Close - bar.Close_1) < CRASH_PCT * bar.Close_1

\* C6: at any bar with a defined volume baseline where volume exceeds 3 times
\* the baseline and the close-to-close change is below -10 %,
\* generate_enhanced_signals yields STRONG_SELL with reason
\* 'Major Price Crash (-10%+)', whatever the SMA and RSI values are, also
\* when they are undefined or a buy condition holds too.
C6_Crash ==
    (EquityLabelled /\ BarCrash) =>
        /\ labels.Signal = "STRONG_SELL"
        /\ labels.Position = -2
        /\ labels.Signal_Reason = "Major Price Crash (-10%+)"

\* a crash at 4x volume on a bar whose RSI is extreme and whose buy condition holds
C6_Witness ==
    /\ EquityLabelled
    /\ BarCrash
    /\ bar.Volume = 4 * bar.Volume_MA
    /\ strong_sell_extreme(bar)
    /\ buy_condition(bar)
    /\ labels.Signal_Reason = "Major Price Crash (-10%+)"

\* a crash on a bar whose averages and RSI are undefined
C6_UndefinedReached ==
    /\ EquityLabelled
    /\ BarCrash
    /\ IsNaN(bar.sma_long)
    /\ IsNaN(bar.rsi)

\* C7: short-horizon levels of generate_signals (stop 5 %, target 10 %): for
\* BUY entry = close, stop_loss = max(support, 0.95*close), take_profit =
\* min(resistance, 1.10*close); for SELL entry = close, stop_loss =
\* min(resistance, 1.05*close), take_profit = max(support, 0.90*close), with
\* support and resistance the 20-bar rolling low and high at the latest bar.
C7_ShortHorizonLevels ==
    MurphyAnalysed =>
        LET c   == latest.close
            sup == 100 * latest.support
            res == 100 * latest.resistance
        IN  /\ signals.signal = "BUY" =>
                  /\ signals.entry_price = 100 * c
                  /\ signals.stop_loss = (IF sup >= 95 * c THEN sup ELSE 95 * c)
                  /\ signals.take_profit = (IF res <= 110 * c THEN res ELSE 110 * c)
            /\ signals.signal = "SELL" =>
                  /\ signals.entry_price = 100 * c
                  /\ signals.stop_loss = (IF res <= 105 * c THEN res ELSE 105 * c)
                  /\ signals.take_profit = (IF sup >= 90 * c THEN sup ELSE 90 * c)

\* a BUY whose stop is the support and whose target is the resistance
C7_Witness ==
    /\ MurphyAnalysed
    /\ signals.signal = "BUY"
    /\ signals.stop_loss = 100 * latest.support
    /\ signals.stop_loss > 95 * latest.close
    /\ signals.take_profit = 100 * latest.resistance
    /\ signals.take_profit < 110 * latest.close

C9_Original ==
    /\ (variant = "murphy" /\ pc = "done" /\ signals.signal \in {"HOLD", "NO_DATA"}) =>
          ZeroLevels(signals)
    /\ (EquityValidated /\ signal_info.signal \in {"HOLD", "NO_DATA"}) =>
          /\ signal_info.stop_loss_price = 0
          /\ signal_info.take_profit_price = 0

\* C9 (amended): every HOLD or NO_DATA signal returned by generate_signals /
\* empty_signal carries entry, stop-loss, take-profit and risk/reward 0; the
\* signal_info of validate_signal carries stop_loss_price = 0.85*close and
\* take_profit_price = 1.25*close for HOLD as for every other direction.
C9_HoldLevels ==
    /\ (variant = "murphy" /\ pc = "done" /\ signals.signal \in {"HOLD", "NO_DATA"}) =>
          ZeroLevels(signals)
    /\ (EquityValidated /\ signal_info.signal = "HOLD") =>
          /\ signal_info.stop_loss_price = 85 * bar.Close
          /\ signal_info.take_profit_price = 125 * bar.Close
          /\ signal_info.stop_loss_price # 0

\* a HOLD decided on a full series, with one bullish tag present
C9_Witness ==
    /\ MurphyAnalysed
    /\ signals.signal = "HOLD"
    /\ Bullish(signals) = 1
    /\ ZeroLevels(signals)

\* C10 (as stated): for every signal of generate_signals risk_reward =
\* round(|take_profit - entry| / |entry - stop_loss|, 2), it is >= 0, and it
\* equals 0 if and only if entry_price equals stop_loss.
C10_Original ==
    (variant = "murphy" /\ pc = "done") =>
        /\ signals.risk_reward >= 0
        /\ signals.risk_reward = 0 <=> signals.entry_price = signals.stop_loss

\* C10 (amended): for every signal of generate_signals risk_reward >= 0; it
\* is 0 when entry_price equals stop_loss (no division takes place) and
\* round(|take_profit - entry| / |entry - stop_loss|, 2) otherwise; so it is
\* 0 also when take_profit equals entry_price or the ratio rounds to 0.
C10_RiskReward ==
    (variant = "murphy" /\ pc = "done") =>
        LET risk   == Abs(signals.entry_price - signals.stop_loss)
            reward == Abs(signals.take_profit - signals.entry_price)
        IN  /\ signals.risk_reward >= 0
            /\ risk = 0 => signals.risk_reward = 0
            /\ risk # 0 => signals.risk_reward = Round2(reward, risk)
            /\ (risk # 0 /\ reward = 0) => signals.risk_reward = 0

\* a SELL whose ratio 8 / 5.2 is rounded to 1.54
C10_Witness ==
    /\ MurphyAnalysed
    /\ signals.signal = "SELL"
    /\ signals.entry_price # signals.stop_loss
    /\ signals.risk_reward = 154

\* a BUY at the 20-bar high: target = entry, stop below, ratio 0
C10_ZeroReward ==
    /\ MurphyAnalysed
    /\ signals.signal = "BUY"
    /\ signals.take_profit = signals.entry_price
    /\ signals.entry_price # signals.stop_loss
    /\ signals.risk_reward = 0

\* |Close - previous Close| / previous Close >= 3 %, on the exact change
BarChangeAtLeastMin ==
    /\ ~IsNaN(bar.Close_1) /\ bar.Close_1 > 0
    /\ 100 * Abs(bar.Close - bar.Close_1) >= MIN_PRICE_CHANGE_PCT * bar.Close_1

C11_InvalidStrongSell ==
    /\ EquityValidated
    /\ signal_info.signal = "STRONG_SELL"
    /\ ~signal_info.valid
    /\ signal_info.strength = "VERY_STRONG"

\* C12 (as stated): validate_signal sets valid = true iff the latest bar's
\* volume >= MIN_VOLUME_THRESHOLD and every indicator the signal rules read at
\* that bar (short SMA, long SMA, RSI, volume baseline) is defined.
C12_Original ==
    EquityValidated =>
        (signal_info.valid <=>
            /\ bar.Volume >= MIN_VOLUME_THRESHOLD
            /\ ~IsNaN(bar.sma_short) /\ ~IsNaN(bar.sma_long)
            /\ ~IsNaN(bar.rsi) /\ ~IsNaN(bar.Volume_MA))

\* C12 (amended): valid = true iff the latest bar's volume >=
\* MIN_VOLUME_THRESHOLD and the short and the long SMA are defined at that
\* bar; RSI and the volume baseline are not checked, an undefined RSI is
\* reported as 50 and does not make the signal invalid.
C12_Valid ==
    EquityValidated =>
        /\ signal_info.valid <=>
              /\ bar.Volume >= MIN_VOLUME_THRESHOLD
              /\ ~IsNaN(bar.sma_short) /\ ~IsNaN(bar.sma_long)
        /\ IsNaN(bar.rsi) => signal_info.rsi = 5000

\* the latest bar of a series that has not moved: RSI undefined, signal valid
C12_Witness ==
    /\ EquityValidated
    /\ IsNaN(bar.rsi)
    /\ bar.Volume >= MIN_VOLUME_THRESHOLD
    /\ signal_info.valid
    /\ signal_info.strength = "MODERATE"

\* both analysis calls on the snapshot have returned
AnalysedTwice == pc = "twice"

\* what the first call returned
FirstResult == IF variant = "murphy" THEN signals ELSE signal_info

Recomputed == variant \in {"murphy_table", "equity_table"} /\ pc = "compared"

Has(tags, tag) == \E k \in DOMAIN tags : tags[k] = tag

Undefined(x, names) == \E c \in names : IsNaN(x[c])

\* every indicator column of the bar is undefined
AllUndefined(x) ==
    \A c \in {"Close_1", "Close_5", "sma_short", "sma_long", "sma_short_1", "sma_long_1",
              "sma_short_2", "sma_long_2", "rsi", "rsi_1", "rsi_10", "close_ma10",
              "close_ma10_10", "Volume_MA", "Recent_High", "Recent_Low"} : IsNaN(x[c])

\* C15: in both engines a rule with an undefined indicator input at the
\* evaluated bar, or at the previous bar it compares with, does not fire: in
\* generate_signals it adds no tag, in generate_enhanced_signals its condition
\* is false, and a bar whose indicators are all undefined is labelled HOLD.
C15_UndefinedDoesNotFire ==
    /\ MurphyAnalysed =>
          /\ (Undefined(latest, {"ema_12", "ema_26"}) \/ Undefined(prev, {"ema_12", "ema_26"}))
                => /\ ~Has(signals.analysis.trend, "BULLISH_MA_CROSS")
                   /\ ~Has(signals.analysis.trend, "BEARISH_MA_CROSS")
          /\ Undefined(latest, {"close", "sma_20", "sma_50"})
                => /\ ~Has(signals.analysis.trend, "BULLISH_TREND")
                   /\ ~Has(signals.analysis.trend, "BEARISH_TREND")
          /\ (Undefined(latest, {"macd", "macd_signal"})
                  \/ Undefined(prev, {"macd", "macd_signal"}))
                => /\ ~Has(signals.analysis.momentum, "BULLISH_MACD")
                   /\ ~Has(signals.analysis.momentum, "BEARISH_MACD")
          /\ Undefined(latest, {"rsi"})
                => /\ ~Has(signals.analysis.momentum, "OVERSOLD")
                   /\ ~Has(signals.analysis.momentum, "OVERBOUGHT")
          /\ Undefined(latest, {"volume", "volume_sma"}) => signals.analysis.volume = <<>>
    /\ EquityLabelled =>
          /\ Undefined(bar, {"sma_short", "sma_long", "sma_short_1", "sma_long_1"})
                => ~buy_sma_cross(bar) /\ ~sell_sma_cross(bar) /\ ~sma_cross_confirmed(bar)
          /\ Undefined(bar, {"sma_short_2", "sma_long_2"}) => ~sma_cross_confirmed(bar)
          /\ Undefined(bar, {"rsi"})
                => /\ ~buy_rsi_ok(bar) /\ ~rsi_oversold_recovery(bar) /\ ~strong_uptrend(bar)
                   /\ ~sell_rsi_overbought(bar) /\ ~sell_divergence(bar)
                   /\ ~strong_sell_extreme(bar)
          /\ Undefined(bar, {"rsi_1"}) => ~rsi_oversold_recovery(bar)
          /\ Undefined(bar, {"sma_short", "sma_long"}) => ~strong_uptrend(bar)
          /\ Undefined(bar, {"Close_5"}) => ~price_momentum(bar)
          /\ Undefined(bar, {"Volume_MA", "Close_1"})
                => ~sell_high_volume(bar) /\ ~strong_sell_crash(bar)
          /\ Undefined(bar, {"Volume_MA"}) => ~strong_sell_extreme(bar)
          /\ Undefined(bar, {"close_ma10", "close_ma10_10", "rsi_10"}) => ~sell_divergence(bar)
          /\ Undefined(bar, {"sma_short", "sma_long", "rsi"}) => labels.Signal # "BUY"
          /\ AllUndefined(bar)
                => labels = [Signal |-> "HOLD", Position |-> 0, Signal_Reason |-> "No Signal"]
    /\ (variant = "equity_table" /\ pc = "table") =>
          \A i \in 1..Len(series) :
              AllUndefined(RuleInputs(series, i)) => table[i].Signal = "HOLD"

\* generate_signals returned BUY for a series whose 50-bar average is undefined
\* at the latest bar while the close is above the 20-bar average: the trend
\* rule stayed silent and the other rules decided
C15_Witness ==
    /\ MurphyAnalysed
    /\ IsNaN(latest.sma_50)
    /\ latest.close > latest.sma_20
    /\ signals.analysis.trend = <<"BULLISH_MA_CROSS">>
    /\ signals.signal = "BUY"

\* the first bar of a series, every indicator undefined, was labelled HOLD
C15_FirstBarHold ==
    /\ EquityLabelled
    /\ bar_index = 0
    /\ AllUndefined(bar)
    /\ labels.Signal = "HOLD"

\* the RSI column of the series has been computed
RsiComputed == variant = "equity_table" /\ pc \in {"table", "compared"}

\* C16: calculate_rsi on a zero average loss: at a bar whose rolling average
\* loss is 0 and whose rolling average gain is positive the oscillator is
\* exactly 100; when both averages are 0 it is undefined; in every other
\* defined case it equals 100 - 100 / (1 + gain / loss), that is
\* 100 * gain / (gain + loss), and lies in [0, 100].
C16_RsiOnZeroLoss ==
    RsiComputed =>
        \A i \in RSI_PERIOD..Len(series) :
            LET gain == GainSum(Closes(series), i, RSI_PERIOD)
                loss == LossSum(Closes(series), i, RSI_PERIOD)
                rsi  == IF pc = "table" THEN table[i].RSI ELSE retable[i].RSI
            IN  /\ (loss = 0 /\ gain > 0) => rsi = 100
                /\ (loss = 0 /\ gain = 0) => IsNaN(rsi)
                /\ loss > 0 => /\ ~IsNaN(rsi)
                               /\ rsi * (gain + loss) = 100 * gain
                               /\ 0 <= rsi /\ rsi <= 100

\* one table holds a bar with no gain and no loss in its window, the bar after
\* it with a gain and no loss, and a bar with both
C16_Witness ==
    /\ RsiComputed
    /\ pc = "compared"
    /\ \E i \in RSI_PERIOD..(Len(retable) - 2) :
           /\ IsNaN(retable[i].RSI)
           /\ retable[i + 1].RSI = 100
           /\ retable[i + 2].RSI = 25

\* detect_patterns has returned
PatternsDetected == variant = "patterns" /\ pc = "detected"

\* position of the first largest value of xs outside the positions in taken
ArgMaxExcept(xs, taken) ==
    CHOOSE i \in (1..Len(xs)) \ taken :
        \A j \in (1..Len(xs)) \ taken : xs[j] < xs[i] \/ (xs[j] = xs[i] /\ j >= i)

\* among the three largest values of xs, taken in time order, the middle one
\* is higher than the earlier and the later one
HeadInMiddle(xs) ==
    LET a == ArgMaxExcept(xs, {})
        b == ArgMaxExcept(xs, {a})
        c == ArgMaxExcept(xs, {a, b})
        first == CHOOSE i \in {a, b, c} : \A j \in {a, b, c} : i <= j
        last == CHOOSE i \in {a, b, c} : \A j \in {a, b, c} : i >= j
        middle == CHOOSE i \in {a, b, c} : i # first /\ i # last
    IN  xs[middle] > xs[first] /\ xs[middle] > xs[last]

\* C17: for every series of at least 50 bars detect_patterns sets
\* head_shoulders = BEARISH exactly when, among the three largest highs of the
\* last 20 bars taken in time order, the middle one is higher than both the
\* earlier and the later one; otherwise it is NONE.
C17_HeadShoulders ==
    (PatternsDetected /\ Len(series) >= MIN_PATTERN_BARS) =>
        /\ patterns.head_shoulders \in {"BEARISH", "NONE"}
        /\ patterns.head_shoulders = "BEARISH"
               <=> HeadInMiddle(tail(Highs(series), PATTERN_BARS))

\* detect_patterns never reports a head-and-shoulders pattern
C17_NeverReported ==
    PatternsDetected => patterns.head_shoulders = "NONE"

\* a head between two lower shoulders in the last 20 bars of a 50-bar series
C17_HeadPresent ==
    /\ PatternsDetected
    /\ Len(series) = MIN_PATTERN_BARS
    /\ HeadInMiddle(tail(Highs(series), PATTERN_BARS))

\* C18: for every series with fewer than 50 bars, whatever its prices,
\* detect_patterns returns head_shoulders, double_top, double_bottom, triangle
\* and flag all equal to NONE.
C18_ShortSeriesNoPatterns ==
    (PatternsDetected /\ Len(series) < MIN_PATTERN_BARS) =>
        \A k \in {"head_shoulders", "double_top", "double_bottom", "triangle", "flag"} :
            patterns[k] = "NONE"

\* a 49-bar series whose last bars form a double top and a symmetrical
\* triangle came back without any pattern
C18_Witness ==
    /\ PatternsDetected
    /\ Len(series) = MIN_PATTERN_BARS - 1
    /\ double_top(series) = "BEARISH"
    /\ triangle(series) = "SYMMETRICAL"
    /\ patterns = NoPatterns

\* the detector reports each triangle and both double patterns on longer series
C18_PatternsOccur ==
    /\ PatternsDetected
    /\ patterns.triangle = "ASCENDING"
    /\ patterns.double_bottom = "BULLISH"
    /\ patterns.double_top = "NONE"

\* C19: the Bar Series handed in by the caller is read-only to the engine:
\* calculate_indicators (short-horizon engine) and generate_enhanced_signals
\* (long-horizon engine) leave the caller's series object with the same
\* columns and the same values as before the call.
C19_CallerSeriesReadOnly ==
    [][(CalculateIndicators \/ CalculateTechnicalIndicators)
           => (columns' = columns /\ series' = series)]_vars

\* the long-horizon engine works on a copy: the caller's object keeps its
\* columns and values
C19_EquityReadOnly ==
    [][CalculateTechnicalIndicators => (columns' = columns /\ series' = series)]_vars

\* calculate_indicators has returned and the caller's object carries the
\* indicator columns
C19_ColumnsAdded ==
    /\ variant = "murphy_table"
    /\ pc = "table"
    /\ IndicatorColumns \subseteq columns
    /\ OhlcvColumns \subseteq columns

\* analyze_symbol has returned or raised
SymbolReturned == variant = "symbol" /\ pc = "returned"

\* C20: analyze_symbol never lets an exception reach its caller: when the data
\* fetch fails or returns no bars, when there are fewer than 50 bars, or when
\* an indicator or signal step raises, it returns the NO_DATA signal
\* (confidence 0, strength NONE, all levels 0) instead.
C20_NeverRaises ==
    SymbolReturned =>
        /\ signals # Raised
        /\ (\/ fetch = "error"
            \/ df_len < MIN_BARS
            \/ "indicators" \in faults
            \/ "signals" \in faults)
              => /\ signals.signal = "NO_DATA"
                 /\ signals.confidence = 0
                 /\ signals.strength = "NONE"
                 /\ ZeroLevels(signals)

\* generate_signals raised on a series of 50 bars that was fetched and whose
\* indicators were computed, and the caller got the NO_DATA signal
C20_Witness ==
    /\ SymbolReturned
    /\ fetch = "bars"
    /\ df_len >= MIN_BARS
    /\ faults = {"signals"}
    /\ signals.signal = "NO_DATA"

\* without a fault a fetched series of 50 bars gets its signal, with the
\* symbol and the timeframe added
C20_Analysed ==
    /\ SymbolReturned
    /\ faults = {}
    /\ signals.signal = "BUY"
    /\ signals.symbol = "BTC/USDT"

----------------------------------------------------------------------------
(* Levels and evidence of the short-horizon signal *)

\* C27: for every signal of generate_signals on a series whose bars have
\* low <= close <= high (so that support <= close <= resistance on the latest
\* bar), a BUY has stop_loss <= entry_price <= take_profit and a SELL has
\* take_profit <= entry_price <= stop_loss: the stop is never on the profit
\* side of the entry.
C27_StopOnLossSide ==
    (MurphyAnalysed /\ latest.support <= latest.close
                    /\ latest.close <= latest.resistance) =>
        /\ signals.signal = "BUY" =>
              /\ signals.stop_loss <= signals.entry_price
              /\ signals.entry_price <= signals.take_profit
        /\ signals.signal = "SELL" =>
              /\ signals.take_profit <= signals.entry_price
              /\ signals.entry_price <= signals.stop_loss

\* a SELL whose stop lies strictly above the entry and whose target lies
\* strictly below it
C27_Witness ==
    /\ MurphyAnalysed
    /\ signals.signal = "SELL"
    /\ signals.take_profit < signals.entry_price
    /\ signals.entry_price < signals.stop_loss

\* a BUY whose support is the close itself has its stop at the entry
C27_StopAtEntry ==
    /\ MurphyAnalysed
    /\ signals.signal = "BUY"
    /\ signals.stop_loss = signals.entry_price
    /\ signals.entry_price < signals.take_profit

\* the tags of the four counted rules, read from the analysis breakdown
FourRuleTags(sg) == sg.analysis.trend \o sg.analysis.momentum

\* how many tags of a sequence lie in a set
CountIn(tags, set) == Cardinality({i \in DOMAIN tags : tags[i] \in set})

BullishTags == {"BULLISH_MA_CROSS", "BULLISH_TREND", "BULLISH_MACD", "OVERSOLD"}
BearishTags == {"BEARISH_MA_CROSS", "BEARISH_TREND", "BEARISH_MACD", "OVERBOUGHT"}

\* C30: in generate_signals the direction and the confidence are determined
\* by the tags of four rules alone (EMA crossover, SMA trend, MACD crossover,
\* RSI oversold/overbought), each rule contributing at most one tag; band,
\* volume and support/resistance tags never change them.  So the confidence
\* is 40, 60 or 80 for BUY and SELL and 50 for HOLD, never 100, and every HOLD
\* has strength WEAK.
C30_FourRulesDecide ==
    MurphyAnalysed =>
        LET four == FourRuleTags(signals)
            b    == CountIn(four, BullishTags)
            s    == CountIn(four, BearishTags)
        IN  /\ CountIn(four, {"BULLISH_MA_CROSS", "BEARISH_MA_CROSS"}) <= 1
            /\ CountIn(four, {"BULLISH_TREND", "BEARISH_TREND"}) <= 1
            /\ CountIn(four, {"BULLISH_MACD", "BEARISH_MACD"}) <= 1
            /\ CountIn(four, {"OVERSOLD", "OVERBOUGHT", "NEUTRAL"}) <= 1
            /\ Len(four) <= 4
            /\ signals.signal = "BUY" <=> (b > s /\ b >= 2)
            /\ signals.signal = "SELL" <=> (s > b /\ s >= 2)
            /\ signals.signal = "BUY" => signals.confidence = 20 * b
            /\ signals.signal = "SELL" => signals.confidence = 20 * s
            /\ signals.signal \in {"BUY", "SELL"} => signals.confidence \in {40, 60, 80}
            /\ signals.signal = "HOLD" =>
                  signals.confidence = 50 /\ signals.strength = "WEAK"
            /\ signals.confidence # 100

\* a bar above its upper band, on high volume and at its resistance, that has
\* one bullish tag among the four rules: the signal is HOLD
C30_Witness ==
    /\ MurphyAnalysed
    /\ signals.analysis.volatility = <<"BB_BREAKOUT_UP">>
    /\ signals.analysis.volume = <<"HIGH_VOLUME">>
    /\ CountIn(FourRuleTags(signals), BullishTags) = 1
    /\ CountIn(FourRuleTags(signals), BearishTags) = 0
    /\ signals.signal = "HOLD"
    /\ signals.confidence = 50

\* all four rules bullish at once: BUY with confidence 80, strength STRONG
C30_AllFour ==
    /\ MurphyAnalysed
    /\ CountIn(FourRuleTags(signals), BullishTags) = 4
    /\ signals.confidence = 80
    /\ signals.strength = "STRONG"

----------------------------------------------------------------------------
(* The per-user watchlists of the interactive bot *)

\* a /watchlist command has been handled
CommandHandled == variant = "interactive" /\ call # None

NoDuplicates(list) ==
    \A i, j \in DOMAIN list : list[i] = list[j] => i = j

\* C29: after any sequence of /watchlist add, remove and clear commands by any
\* users, no stored watchlist holds a symbol twice; adding a symbol already
\* present and removing a symbol not present leave the watchlist unchanged;
\* clear leaves it empty; a command of one user never changes the watchlist of
\* another user.
C29_UserWatchlists ==
    CommandHandled =>
        LET u      == call.user_id
            args   == call.args
            before == call.before
        IN  /\ \A v \in Users : NoDuplicates(StoredList(user_watchlists, v))
            /\ \A v \in Users \ {u} :
                  /\ v \in DOMAIN user_watchlists <=> v \in DOMAIN before
                  /\ StoredList(user_watchlists, v) = StoredList(before, v)
            /\ (Len(args) = 2 /\ args[1] = "add"
                   /\ InList(format_symbol(args[2]), StoredList(before, u)))
                  => user_watchlists = before
            /\ (Len(args) = 2 /\ args[1] = "remove"
                   /\ ~InList(format_symbol(args[2]), StoredList(before, u)))
                  => user_watchlists = before
            /\ (Len(args) = 1 /\ args[1] = "clear") =>
                  u \in DOMAIN user_watchlists /\ user_watchlists[u] = <<>>

\* user 1 holds two symbols, user 2 holds one of them, and user 1 has just
\* added "btc" again, which is BTC-USD, already in the list
C29_Witness ==
    /\ CommandHandled
    /\ call.user_id = 1
    /\ call.args = <<"add", [name |-> "BTC", lower |-> TRUE, suffix |-> ""]>>
    /\ Len(StoredList(call.before, 1)) = 2
    /\ InList([name |-> "BTC", lower |-> FALSE, suffix |-> "-USD"], call.before[1])
    /\ user_watchlists[1] = call.before[1]
    /\ Len(StoredList(user_watchlists, 2)) = 1

\* a remove took a symbol out of the middle of a list of three
C29_Removed ==
    /\ CommandHandled
    /\ Len(call.args) = 2
    /\ call.args[1] = "remove"
    /\ Len(StoredList(call.before, call.user_id)) = 3
    /\ call.before[call.user_id][2] = format_symbol(call.args[2])
    /\ user_watchlists[call.user_id] =
           <<call.before[call.user_id][1], call.before[call.user_id][3]>>

----------------------------------------------------------------------------
(* The failure counter of the production wrapper *)

\* the production loop has been entered and no signal has ended the process
ProductionLooping == variant = "production" /\ pc \in {"looping", "ended"}

\* C24: ProductionTradingBot counts consecutive failures.  A successful
\* run_daily_analysis_safe resets error_count to 0 and records
\* last_successful_run; a failed one adds 1 to error_count.  running becomes
\* false exactly when error_count reaches max_errors (5), and then the loop
\* ends: no analysis starts while running is false.  Always
\* 0 <= error_count <= max_errors, and failures alone do not stop the bot
\* while error_count < max_errors.
C24_ConsecutiveFailures ==
    variant = "production" =>
        /\ 0 <= production.error_count
        /\ production.error_count <= max_errors
        /\ ProductionLooping =>
              (~production.running <=> production.error_count = max_errors)
        /\ pc = "ended" => ~production.running
        /\ (ProductionLooping /\ call # None) =>
              /\ call.before.running
              /\ call.outcome = "ok" =>
                    /\ production.error_count = 0
                    /\ production.last_successful_run = [at |-> production.runs]
                    /\ production.running
              /\ call.outcome = "raises" =>
                    /\ production.error_count = call.before.error_count + 1
                    /\ production.last_successful_run = call.before.last_successful_run

\* five failures in a row after a success: the counter is at max_errors,
\* running is false and the loop has ended
C24_Witness ==
    /\ variant = "production"
    /\ pc = "ended"
    /\ production.error_count = max_errors
    /\ ~production.running
    /\ production.last_successful_run = [at |-> 1]
    /\ production.runs = 6

\* four failures, then a success: the counter is back at 0 and the bot runs on
C24_Reset ==
    /\ ProductionLooping
    /\ call # None
    /\ call.before.error_count = max_errors - 1
    /\ call.outcome = "ok"
    /\ production.error_count = 0
    /\ production.running

----------------------------------------------------------------------------
(* The watchlist records *)

\* the alerts of one type and symbol among all alerts raised so far
AlertsOf(b, type, symbol) ==
    LET Mine(a) == a.type = type /\ a.symbol = symbol
    IN  SelectSeq(b.watchlist_alerts, Mine)

\* list holds the last entries of all, at most ten of them, in their order
LastOf(list, all) ==
    /\ Len(list) <= KEPT_ENTRIES
    /\ Len(list) = IF Len(all) > KEPT_ENTRIES THEN KEPT_ENTRIES ELSE Len(all)
    /\ \A i \in DOMAIN list : list[i] = all[Len(all) - Len(list) + i]

\* C25: after any sequence of update_watchlist_data calls, price_alerts,
\* volume_alerts and signal_history of each watchlist symbol hold at most 10
\* entries, the most recent ones in arrival order; last_price is the price of
\* the latest update; a symbol outside WATCHLIST_STOCKS never gets an entry in
\* watchlist_data nor an alert in watchlist_alerts.
C25_WatchlistRecords ==
    (variant = "watchlist" /\ call # None) =>
        /\ DOMAIN bot.watchlist_data \subseteq WATCHLIST_STOCKS
        /\ \A i \in DOMAIN bot.watchlist_alerts :
              bot.watchlist_alerts[i].symbol \in WATCHLIST_STOCKS
        /\ \A symbol \in DOMAIN bot.watchlist_data :
              LET entry == bot.watchlist_data[symbol]
                  n     == Len(entry.signal_history)
              IN  /\ LastOf(entry.price_alerts, AlertsOf(bot, "PRICE_MOVE", symbol))
                  /\ LastOf(entry.volume_alerts, AlertsOf(bot, "HIGH_VOLUME", symbol))
                  /\ n = IF clock > KEPT_ENTRIES THEN KEPT_ENTRIES ELSE clock
                  /\ \A i \in 1..n : entry.signal_history[i].timestamp = clock - n + i
                  /\ entry.last_price = entry.signal_history[n].price
                  /\ call.symbol = symbol =>
                        entry.last_price = call.signal_info.current_price

\* twelve updates of a watchlist symbol whose price swung every time: eleven
\* price alerts were raised and the first of them has been dropped
C25_Witness ==
    /\ variant = "watchlist"
    /\ call # None
    /\ "BBCA.JK" \in DOMAIN bot.watchlist_data
    /\ Len(AlertsOf(bot, "PRICE_MOVE", "BBCA.JK")) = KEPT_ENTRIES + 1
    /\ Len(bot.watchlist_data["BBCA.JK"].price_alerts) = KEPT_ENTRIES
    /\ bot.watchlist_data["BBCA.JK"].price_alerts[1].timestamp = 3
    /\ Len(bot.watchlist_data["BBCA.JK"].signal_history) = KEPT_ENTRIES

\* an update for a symbol outside the watchlist, after updates of a watchlist
\* symbol with eleven volume alerts
C25_OtherSymbol ==
    /\ variant = "watchlist"
    /\ call # None
    /\ call.symbol = "ASII.JK"
    /\ Len(AlertsOf(bot, "HIGH_VOLUME", "BBCA.JK")) = KEPT_ENTRIES + 1
    /\ DOMAIN bot.watchlist_data = {"BBCA.JK"}

----------------------------------------------------------------------------
(* The ChatGPT confirmation and the delivery of analyze_stock *)

\* analyze_stock has returned or raised
StockAnalysed == variant = "stock" /\ pc = "returned"

\* analyze_stock got a valid signal and asked for its confirmation
ConfirmationAsked ==
    StockAnalysed /\ ~InsufficientData(df_len) /\ SignalValid(bar)

\* the keys a confirmation must have
required_fields == {"confirmed", "confidence", "analysis", "recommendation"}

\* C26: for every sequence of API outcomes over its at most
\* CHATGPT_MAX_RETRIES (2) attempts (a well-formed reply, an API exception, a
\* non-JSON reply, a JSON reply that lacks a required field),
\* get_chatgpt_confirmation returns a record with 'confirmed', 'confidence',
\* 'analysis' and 'recommendation'; it never returns None and never raises,
\* so analyze_stock can always read the recommendation and the confidence.
C26_AlwaysARecord ==
    ConfirmationAsked =>
        LET got == get_chatgpt_confirmation(call.openai_client, call.outcomes)
        IN  /\ got # None
            /\ required_fields \subseteq DOMAIN got
            /\ signal_info # Raised

\* None comes back exactly when the last attempt the loop makes ends with a
\* JSON reply that lacks a required field; analyze_stock then raises
C26_NoneAfterMissingField ==
    ConfirmationAsked =>
        LET got == get_chatgpt_confirmation(call.openai_client, call.outcomes)
        IN  /\ got = None <=>
                  /\ call.openai_client
                  /\ call.outcomes[1].kind \in {"api_error", "missing_field"}
                  /\ call.outcomes[2].kind = "missing_field"
            /\ got # None => required_fields \subseteq DOMAIN got
            /\ signal_info = Raised <=> got = None

\* two API exceptions in a row: the outer handler answers with its fallback
C26_ErrorFallback ==
    /\ ConfirmationAsked
    /\ call.openai_client
    /\ call.outcomes[1].kind = "api_error"
    /\ call.outcomes[2].kind = "api_error"
    /\ call.confirmation.recommendation = "PROCEED_WITH_CAUTION"

\* validate_signal found the latest bar invalid
InvalidAnalysed ==
    StockAnalysed /\ ~InsufficientData(df_len) /\ ~SignalValid(bar)

\* C21: an invalid signal is advisory, not discarded: when validate_signal
\* yields valid = false, analyze_stock still returns that signal record (not
\* None), and for that call nothing is sent to Telegram, nothing is appended
\* to signals_history and no watchlist data or alert is recorded.
C21_InvalidIsAdvisory ==
    InvalidAnalysed =>
        /\ signal_info # None
        /\ signal_info # Raised
        /\ signal_info =
               WithKeys(validate_signal(df_len, bar, generate_enhanced_signals(bar)),
                        [symbol |-> call.symbol])
        /\ signal_info.valid = FALSE
        /\ bot.telegram = <<>>
        /\ bot.signals_history = <<>>
        /\ bot.watchlist_data = <<>>
        /\ bot.watchlist_alerts = <<>>

\* an invalid BUY of a watchlist stock, with the client configured and a
\* confident CONFIRM on offer: the record comes back and nothing else happens
C21_Witness ==
    /\ InvalidAnalysed
    /\ call.symbol = "BBCA.JK"
    /\ call.openai_client
    /\ call.outcomes[1] = [kind |-> "reply", recommendation |-> "CONFIRM",
                           confidence |-> 700]
    /\ signal_info.signal = "BUY"
    /\ signal_info.valid = FALSE
    /\ bot = NewBot

\* a valid BUY of a watchlist stock is sent, stored and recorded
C21_ValidDelivered ==
    /\ ConfirmationAsked
    /\ call.symbol = "BBCA.JK"
    /\ signal_info # Raised
    /\ signal_info.signal = "BUY"
    /\ Len(bot.telegram) = 2
    /\ bot.signals_history = <<signal_info>>
    /\ DOMAIN bot.watchlist_data = {"BBCA.JK"}

\* the signal message of the call was handed to Telegram
SignalSent ==
    \E i \in DOMAIN bot.telegram : bot.telegram[i].kind = "signal"

\* the direction validate_signal reported for the bar
AnalysedSignal == generate_enhanced_signals(bar).Signal

\* a valid BUY, SELL or STRONG_SELL was analysed with the OpenAI client on
DirectionalConfirmed ==
    /\ ConfirmationAsked
    /\ call.openai_client
    /\ AnalysedSignal \in {"BUY", "SELL", "STRONG_SELL"}

\* the rule of the confirmation filter: not REJECT, and a confidence (times
\* 1.2, capped at 1.0, for a watchlist symbol) of at least 0.7, or 0.5 for a
\* watchlist symbol
PassesFilter(got, symbol) ==
    /\ got # None
    /\ got.recommendation # "REJECT"
    /\ IF symbol \in WATCHLIST_STOCKS
           THEN Min(1000, (12 * got.confidence) \div 10) >= 500
           ELSE got.confidence >= 700

\* the returned record has the direction, strength and levels of validate_signal
SameSignal(returned) ==
    LET info == validate_signal(df_len, bar, generate_enhanced_signals(bar))
    IN  \A k \in DOMAIN info : returned[k] = info[k]

\* C22: when ChatGPT confirmation is active, a valid BUY, SELL or STRONG_SELL
\* signal is sent to Telegram if and only if the recommendation is not REJECT
\* and the confidence is at least the threshold: 0.7 for ordinary symbols, 0.5
\* for watchlist symbols, whose confidence is first multiplied by 1.2 and
\* capped at 1.0.  A signal that is not sent is returned with
\* chatgpt_filtered = true and is not appended to signals_history; the
\* confirmation never changes the signal's direction, strength or levels.
C22_ConfirmationFilter ==
    DirectionalConfirmed =>
        LET got == get_chatgpt_confirmation(call.openai_client, call.outcomes)
        IN  /\ SignalSent <=> PassesFilter(got, call.symbol)
            /\ ~SignalSent =>
                  /\ signal_info # Raised
                  /\ "chatgpt_filtered" \in DOMAIN signal_info
                  /\ signal_info.chatgpt_filtered
                  /\ bot.signals_history = <<>>
            /\ signal_info # Raised => SameSignal(signal_info)

\* whenever get_chatgpt_confirmation returns a record, the filter follows the
\* rule of C22
C22_RecordsFollowRule ==
    (DirectionalConfirmed /\ call.confirmation # None) =>
        LET got == get_chatgpt_confirmation(call.openai_client, call.outcomes)
        IN  /\ SignalSent <=> PassesFilter(got, call.symbol)
            /\ SignalSent => bot.signals_history = <<signal_info>>
            /\ ~SignalSent =>
                  /\ "chatgpt_filtered" \in DOMAIN signal_info
                  /\ signal_info.chatgpt_filtered
                  /\ bot.signals_history = <<>>
            /\ SameSignal(signal_info)

\* a watchlist SELL with confidence 0.42 is boosted to 0.504 and sent
C22_BoostedSent ==
    /\ DirectionalConfirmed
    /\ call.symbol = "BBCA.JK"
    /\ call.outcomes[1] = [kind |-> "reply", recommendation |-> "CONFIRM",
                           confidence |-> 420]
    /\ call.confirmation.confidence = 504
    /\ SignalSent

\* an ordinary BUY with confidence 0.69 is filtered and returned
C22_Filtered ==
    /\ DirectionalConfirmed
    /\ call.symbol = "ASII.JK"
    /\ call.outcomes[1] = [kind |-> "reply", recommendation |-> "CONFIRM",
                           confidence |-> 690]
    /\ ~SignalSent
    /\ signal_info.chatgpt_filtered
    /\ signal_info.signal = "BUY"

\* a valid HOLD was analysed
HoldAnalysed == ConfirmationAsked /\ AnalysedSignal = "HOLD"

\* C23: with ENABLE_HOLD_SIGNALS and SEND_HOLD_SIGNALS_REGARDLESS_OF_CONFIDENCE
\* both true (the shipped configuration), every valid HOLD signal is sent to
\* Telegram, whatever confidence and recommendation the ChatGPT confirmation
\* returns.
C23_HoldAlwaysSent ==
    (HoldAnalysed /\ ENABLE_HOLD_SIGNALS /\ SEND_HOLD_SIGNALS_REGARDLESS_OF_CONFIDENCE)
        => SignalSent

\* a valid HOLD is sent whatever the confidence, unless the confirmation
\* recommends REJECT or did not come back as a record
C23_HoldSentUnlessRejected ==
    HoldAnalysed =>
        /\ signal_info = Raised <=>
               get_chatgpt_confirmation(call.openai_client, call.outcomes) = None
        /\ signal_info # Raised =>
               (SignalSent <=>
                   ~(call.openai_client /\ call.confirmation.recommendation = "REJECT"))

\* a valid HOLD with the recommendation REJECT is filtered
C23_HoldRejected ==
    /\ HoldAnalysed
    /\ call.openai_client
    /\ call.confirmation # None
    /\ call.confirmation.recommendation = "REJECT"
    /\ ~SignalSent
    /\ signal_info.chatgpt_filtered

\* a valid HOLD with a confidence of 0.41 and the recommendation CONFIRM is sent
C23_HoldLowConfidenceSent ==
    /\ HoldAnalysed
    /\ call.openai_client
    /\ call.outcomes[1] = [kind |-> "reply", recommendation |-> "CONFIRM",
                           confidence |-> 410]
    /\ SignalSent

----------------------------------------------------------------------------
(* The summary of the daily run *)

\* the daily run has sent its summary
DailySummarised == variant = "daily" /\ pc = "summarised"

\* the summary message among the messages handed to Telegram
Summary ==
    LET i == CHOOSE k \in DOMAIN bot.telegram : bot.telegram[k].kind = "summary"
    IN  bot.telegram[i]

\* how many stocks had their signal sent to Telegram during the run
StocksSent ==
    Cardinality({k \in DOMAIN bot.telegram : bot.telegram[k].kind = "signal"})

\* how many stocks came back from analyze_stock as a record that is not
\* marked as filtered
StocksReturnedUnfiltered ==
    Cardinality({k \in DOMAIN call.returned :
                    /\ call.returned[k] \notin {None, Raised}
                    /\ ~IsFiltered(call.returned[k])})

\* C28: in run_daily_analysis the 'Signals Sent' count of the summary equals
\* the number of stocks whose signal was sent to Telegram during that run; it
\* equals the sum of the buy, sell, strong-sell and hold counts;
\* signals_sent + chatgpt_filtered never exceeds the number of stocks
\* analysed; an exception while analysing one stock does not keep the other
\* stocks from being analysed nor the summary from being sent.
C28_SummaryCounts ==
    DailySummarised =>
        /\ Summary.signals_sent = StocksSent
        /\ Summary.signals_sent = Summary.buy_signals + Summary.sell_signals
                                    + Summary.strong_sell_signals + Summary.hold_signals
        /\ Summary.signals_sent + Summary.chatgpt_filtered <= Len(INDONESIAN_STOCKS)
        /\ Len(call.returned) = Len(INDONESIAN_STOCKS)

\* what the count is: the stocks whose analysis returned a record not marked
\* as filtered, the invalid signals that were never sent included; the other
\* parts of C28 hold
C28_CountsReturned ==
    DailySummarised =>
        /\ Summary.signals_sent = StocksReturnedUnfiltered
        /\ Summary.signals_sent >= StocksSent
        /\ Summary.signals_sent = Summary.buy_signals + Summary.sell_signals
                                    + Summary.strong_sell_signals + Summary.hold_signals
        /\ Summary.signals_sent + Summary.chatgpt_filtered <= Len(INDONESIAN_STOCKS)
        /\ Len(call.returned) = Len(INDONESIAN_STOCKS)

\* the analysis of the first stock raised, the other two were analysed and
\* sent, and the summary reports two signals
C28_ExceptionSkipped ==
    /\ DailySummarised
    /\ call.returned[1] = Raised
    /\ StocksSent = 2
    /\ Summary.signals_sent = 2

\* three invalid signals: nothing was sent and the summary reports three
C28_InvalidCounted ==
    /\ DailySummarised
    /\ StocksSent = 0
    /\ Summary.signals_sent = 3

====
